---- MODULE Spec2Model ----
(***************************************************************************)
(* Request-admission and identity-trust layer of StoryCanvas:               *)
(*   - the Redis sliding-window rate limiter, the IP block list and the    *)
(*     checkIPBlock middleware (middleware/advancedRateLimiter),           *)
(*   - the JWT token service (AuthService.generateTokens / refreshToken)   *)
(*     and the authenticate / optionalAuth middleware,                     *)
(*   - the audit sink (AuditService.log / logSecurity).                    *)
(* Time is in milliseconds for the limiter and the block list, and in      *)
(* token-lifetime units for the JWT clock.                                 *)
(***************************************************************************)
EXTENDS Integers, Sequences, FiniteSets, TLC

(***************************************************************************)
(* Bounds of the model.                                                    *)
(***************************************************************************)
MaxReq == 3
MaxPipeReq == 2
MaxTicks == 4
TickMs == 500
MaxMax == 2
MaxBlockCalls == 1
MaxTokClock == 2
MaxLoginReq == 2
MaxLoginTicks == 1
MaxAuditLen == 3
MaxDays == 3
MaxReblock == 2
AbuseTickMs == 90000
MaxAbuseTicks == 9
MaxAttempts == 9
MaxCalls == 3
MaxCreates == 4
MaxBookCalls == 3
CacheTickMs == 3600000
MaxCacheTicks == 1
MaxGenCalls == 2
MaxClientReq == 2
MaxRefresh == 2

(***************************************************************************)
(* Configuration values of the model.                                      *)
(***************************************************************************)
WindowMsCfg == 1500
BlockSecondsCfg == 1
AccessTtl == 1
RefreshTtl == 2

IPs == {"ip1", "ip2"}
UserIds == {"u1", "u2"}
NoUser == "anonymous"
NoToken == [kind |-> "absent", userId |-> "", role |-> "", type |-> "",
            key |-> "", iss |-> "", aud |-> "", exp |-> 0]
NoErr == [statusCode |-> 0, message |-> "", cls |-> "none"]

JWT_SECRET == "jwt-secret"
JWT_REFRESH_SECRET == "jwt-refresh-secret"
Issuer == "storycanvas"
Audience == "storycanvas-api"

\* now      : wall clock of the limiter and the block list (ms)
\* config   : the RateLimitConfig the limiter was created with
\* zset     : Redis sorted set per rate-limit key (members = timestamps)
\* zexp     : expiry time of each rate-limit key (0: no key)
\* blocked  : expiry time of each blocked:ip entry (0: no entry)
\* nblock   : number of blockIP calls made
\* auditLog : the auditLog table, in insertion order
\* reqs     : the requests, in arrival order, with their pipeline stage
\* hist     : per key, the limiter evaluations of the trailing window
\* last     : what the most recent middleware step did
\* users    : ids of the rows of the user table
\* tokClock : clock of the token service
\* issued   : the pair generateTokens returned most recently
\* lastOp   : the most recent token-service call and its result
\* accounts : the rows of the user table (email, password hash, reset token)
\* changedAt: per user, the token-service time of the latest password update
\* rotated  : the refresh tokens refreshToken has accepted so far
\* lastBlock: per address, time and duration of the latest blockIP call that
\*            reached the store (cleared by unblockIP)
\* books    : the rows of the book table, by id
\* cache    : the Redis cache entries book:<id>
\* subscriptions : the rows of the subscription table, by user
\* calls    : the service calls that proceed in steps (one step per awaited
\*            database or cache operation), with their local variables;
\*            afterDelete is history: a deleteBook of the book had
\*            completed when the call started
\* browser  : localStorage and window.location of the frontend
VARIABLES now, config, zset, zexp, blocked, nblock, auditLog, reqs, hist,
          last, users, tokClock, issued, lastOp, accounts, changedAt,
          rotated, lastBlock, books, cache, subscriptions, calls, browser

vars == <<now, config, zset, zexp, blocked, nblock, auditLog, reqs, hist,
          last, users, tokClock, issued, lastOp, accounts, changedAt,
          rotated, lastBlock, books, cache, subscriptions, calls,
          browser>>

pipeVars == <<now, config, zset, zexp, blocked, nblock, auditLog, reqs, hist,
              last>>

tokVars == <<users, tokClock, issued, lastOp>>

bookVars == <<books, cache, subscriptions, calls, browser>>

svcVars == <<accounts, changedAt, rotated, lastBlock, books, cache,
             subscriptions, calls, browser>>

(***************************************************************************)
(* Errors.  AppError carries a status code; the jsonwebtoken errors are    *)
(* the classes the JWT library throws.                                     *)
(***************************************************************************)
AppError(message, statusCode) ==
    [statusCode |-> statusCode, message |-> message, cls |-> "AppError"]

JwtError(cls, message) ==
    [statusCode |-> 0, message |-> message, cls |-> cls]

PlainError(message) ==
    [statusCode |-> 0, message |-> message, cls |-> "Error"]

\* err instanceof cls: TokenExpiredError and NotBeforeError derive from
\* JsonWebTokenError in the jsonwebtoken library.
InstanceOf(err, cls) ==
    \/ err.cls = cls
    \/ cls = "JsonWebTokenError" /\ err.cls = "TokenExpiredError"
    \/ cls = "Error" /\ err.cls # "none"

\* errorHandler: the status and message sent to the client.
errorHandler(err) ==
    IF InstanceOf(err, "AppError")
    THEN [status |-> err.statusCode, message |-> err.message]
    ELSE [status |-> 500, message |-> "Internal Server Error"]

\* err.stack: the trace captured when the error was constructed.
StackOf(err) == <<"stack", err.cls, err.message>>

NoStack == <<>>

\* AppError sets isOperational; other errors do not have it.
IsOperational(err) == InstanceOf(err, "AppError")

errorBodyLeaky(err, nodeEnv) ==
    [success |-> FALSE,
     message |-> IF nodeEnv = "production" /\ ~IsOperational(err)
                 THEN "Internal Server Error" ELSE err.message,
     stack |-> IF nodeEnv = "development" THEN StackOf(err) ELSE NoStack]

\* The JSON body errorHandler sends under NODE_ENV = nodeEnv.
errorBody(err, nodeEnv) ==
    [success |-> FALSE,
     message |-> IF nodeEnv = "production" /\ ~IsOperational(err)
                 THEN "Internal Server Error"
                 ELSE errorHandler(err).message,
     stack |-> IF nodeEnv = "development" THEN StackOf(err) ELSE NoStack]

NoBody == [success |-> TRUE, message |-> "", stack |-> NoStack]

(***************************************************************************)
(* Audit sink.                                                             *)
(***************************************************************************)
AuditEvent(action, resource, ipAddress, userId, createdAt) ==
    [action |-> action, resource |-> resource, ipAddress |-> ipAddress,
     userId |-> userId, createdAt |-> createdAt]

\* AuditService.log: prisma.auditLog.create; a failure of the write is
\* caught and only reported to the application logger.
AuditLog(log, data, dbOk, at) ==
    IF dbOk
    THEN Append(log, AuditEvent(data.action, data.resource, data.ipAddress,
                                data.userId, at))
    ELSE log

logSecurityTwice(log, action, ipAddress, dbOk, at) ==
    LET data == [action |-> action, resource |-> "security",
                 ipAddress |-> ipAddress, userId |-> NoUser]
    IN AuditLog(AuditLog(log, data, dbOk, at), data, dbOk, at)

\* AuditService.logSecurity: resource 'security', no userId.
logSecurity(log, action, ipAddress, dbOk, at) ==
    AuditLog(log, [action |-> action, resource |-> "security",
                   ipAddress |-> ipAddress, userId |-> NoUser], dbOk, at)

AuditLogErrorNoCatch(dbOk) ==
    IF dbOk THEN NoErr ELSE PlainError("audit store unavailable")

\* What AuditService.log raises to its caller: nothing, because the failure
\* of prisma.auditLog.create is caught inside it.
AuditLogError(dbOk) == NoErr

\* The argument of a call that writes no audit event.
NoAudit == [action |-> "none", resource |-> "", ipAddress |-> "",
            userId |-> NoUser]

\* AuditService.logAuth: resource 'auth'; the argument handed to log.
logAuth(userId, action, ipAddress) ==
    [action |-> action, resource |-> "auth", ipAddress |-> ipAddress,
     userId |-> userId]

\* 24 * 60 * 60 * 1000
DayMs == 86400000

cleanOldLogsInclusive(log, daysToKeep, dbOk, at) ==
    LET cutoffDate == at - daysToKeep * DayMs
    IN IF dbOk
       THEN [log |-> SelectSeq(log, LAMBDA e : ~(e.createdAt <= cutoffDate)),
             count |-> Len(SelectSeq(log,
                              LAMBDA e : e.createdAt <= cutoffDate))]
       ELSE [log |-> log, count |-> 0]

\* AuditService.cleanOldLogs: deleteMany where createdAt < cutoffDate; the
\* number of deleted rows, or 0 when the delete fails.
cleanOldLogs(log, daysToKeep, dbOk, at) ==
    LET cutoffDate == at - daysToKeep * DayMs
    IN IF dbOk
       THEN [log |-> SelectSeq(log, LAMBDA e : ~(e.createdAt < cutoffDate)),
             count |-> Len(SelectSeq(log,
                              LAMBDA e : e.createdAt < cutoffDate))]
       ELSE [log |-> log, count |-> 0]

(***************************************************************************)
(* Redis sorted-set commands used by the limiter; members are the decimal  *)
(* rendering of the timestamp, so a member is identified by its timestamp. *)
(***************************************************************************)
zRemRangeByScoreExclusive(set, lo, hi) == {t \in set : ~(lo <= t /\ t < hi)}

\* ZREMRANGEBYSCORE key lo hi: both ends of the range are inclusive.
zRemRangeByScore(set, lo, hi) == {t \in set : ~(lo <= t /\ t <= hi)}

zAdd(set, score) == set \cup {score}

zCard(set) == Cardinality(set)

zRem(set, member) == set \ {member}

\* Math.ceil(windowMs / 1000)
ExpireSeconds(windowMs) == (windowMs + 999) \div 1000

\* defaultKeyGenerator: user id when authenticated, else the source address.
defaultKeyGenerator(user, ip) ==
    IF user # NoUser THEN <<"user", user>> ELSE <<"ip", ip>>

Keys == {<<"user", u>> : u \in UserIds} \cup {<<"ip", a>> : a \in IPs}

\* The MULTI/EXEC transaction of the limiter: prune, add, count, expire.
\* It returns the new member set, the count and the new expiry of the key.
MultiExec(set, at, windowMs) ==
    LET windowStart == at - windowMs
        pruned == zRemRangeByScore(set, 0, windowStart)
        added == zAdd(pruned, at)
    IN [set |-> added, count |-> zCard(added),
        expireAt |-> at + ExpireSeconds(windowMs) * 1000]

OverLimitAtMax(count, max) == count >= max

\* if (count > max)
OverLimit(count, max) == count > max

\* defaultHandler: throws AppError 429.
defaultHandler ==
    AppError("Too many requests. Please try again later.", 429)

RateLimiterCatchRethrow(error) ==
    [nextCalls |-> 1, nextErr |-> error, logged |-> TRUE]

\* The catch block of the limiter: logs and calls next() with no argument,
\* whatever was thrown inside the try block.
RateLimiterCatch(error) ==
    [nextCalls |-> 1, nextErr |-> NoErr, logged |-> TRUE]

\* Math.max(0, max - count)
Remaining(max, count) == IF max - count > 0 THEN max - count ELSE 0

(***************************************************************************)
(* IP block list.                                                          *)
(***************************************************************************)
\* isIPBlocked: redisClient.get(key) === '1'; a store error yields false.
isIPBlocked(blk, ip, redisOk) ==
    IF redisOk THEN blk[ip] # 0 ELSE FALSE

\* The block entry of ip is present and not expired (state of the store).
BlockEntryLive(blk, ip) == blk[ip] # 0

(***************************************************************************)
(* Token service.  A token is the record of what was signed and with which *)
(* key; "garbage" is a string that is not a JWT, "absent" no token at all. *)
(***************************************************************************)
RoleOf(u) == "PARENT"

Jwt(userId, role, type, key, iss, aud, exp) ==
    [kind |-> "jwt", userId |-> userId, role |-> role, type |-> type,
     key |-> key, iss |-> iss, aud |-> aud, exp |-> exp]

Garbage == [NoToken EXCEPT !.kind = "garbage"]

\* jwt.sign(payload, secret, {expiresIn, issuer, audience})
jwtSign(userId, role, type, secret, ttl, iss, aud, clock) ==
    Jwt(userId, role, type, secret, iss, aud, clock + ttl)

generateTokensOneSecret(userId, role, clock) ==
    [accessToken |-> jwtSign(userId, role, "none", JWT_SECRET, AccessTtl,
                             Issuer, Audience, clock),
     refreshToken |-> jwtSign(userId, role, "refresh", JWT_SECRET,
                              RefreshTtl, Issuer, Audience, clock)]

\* AuthService.generateTokens
generateTokens(userId, role, clock) ==
    [accessToken |-> jwtSign(userId, role, "none", JWT_SECRET, AccessTtl,
                             Issuer, Audience, clock),
     refreshToken |-> jwtSign(userId, role, "refresh", JWT_REFRESH_SECRET,
                              RefreshTtl, Issuer, Audience, clock)]

NoPair == [accessToken |-> NoToken, refreshToken |-> NoToken]

\* jwt.verify(token, secret, options): the error it throws, or NoErr.
\* opts is the set of claims the caller asks it to check ("iss", "aud").
\* The library checks format, signature, expiry, audience, issuer in order.
jwtVerifyExpiresEarly(token, secret, opts, clock) ==
    IF token.kind = "absent"
    THEN JwtError("JsonWebTokenError", "jwt must be provided")
    ELSE IF token.kind = "garbage"
    THEN JwtError("JsonWebTokenError", "jwt malformed")
    ELSE IF token.key # secret
    THEN JwtError("JsonWebTokenError", "invalid signature")
    ELSE IF clock + 1 >= token.exp
    THEN JwtError("TokenExpiredError", "jwt expired")
    ELSE NoErr

jwtVerify(token, secret, opts, clock) ==
    IF token.kind = "absent"
    THEN JwtError("JsonWebTokenError", "jwt must be provided")
    ELSE IF token.kind = "garbage"
    THEN JwtError("JsonWebTokenError", "jwt malformed")
    ELSE IF token.key # secret
    THEN JwtError("JsonWebTokenError", "invalid signature")
    ELSE IF clock >= token.exp
    THEN JwtError("TokenExpiredError", "jwt expired")
    ELSE IF "aud" \in opts /\ token.aud # Audience
    THEN JwtError("JsonWebTokenError", "jwt audience invalid")
    ELSE IF "iss" \in opts /\ token.iss # Issuer
    THEN JwtError("JsonWebTokenError", "jwt issuer invalid")
    ELSE NoErr

\* The options authenticate and optionalAuth pass to jwt.verify: none.
AccessVerifyOpts == {}

\* The options refreshToken passes to jwt.verify: issuer and audience.
RefreshVerifyOpts == {"iss", "aud"}

\* The body of the try block of authenticate: the error thrown, or NoErr.
AuthenticateTry(token, usrs, dbOk, clock) ==
    IF token.kind = "absent"
    THEN AppError("No token provided", 401)
    ELSE LET e == jwtVerify(token, JWT_SECRET, AccessVerifyOpts, clock)
         IN IF e # NoErr THEN e
            ELSE IF ~dbOk THEN PlainError("database unavailable")
            ELSE IF token.userId \notin usrs
            THEN AppError("User not found", 401)
            ELSE NoErr

AuthenticateCatchSwallow(error) == NoErr

\* The catch block of authenticate: the error handed to next().
AuthenticateCatch(error) ==
    IF InstanceOf(error, "JsonWebTokenError")
    THEN AppError("Invalid token", 401)
    ELSE IF InstanceOf(error, "TokenExpiredError")
    THEN AppError("Token expired", 401)
    ELSE error

\* authenticate: next() with the user attached, or next(error).
authenticate(token, usrs, dbOk, clock) ==
    LET e == AuthenticateTry(token, usrs, dbOk, clock)
    IN IF e = NoErr
       THEN [nextCalls |-> 1, nextErr |-> NoErr, user |-> token.userId]
       ELSE [nextCalls |-> 1, nextErr |-> AuthenticateCatch(e),
             user |-> NoUser]

\* optionalAuth: attaches the user when the token verifies and the user
\* exists; every error is swallowed and next() is called without argument.
optionalAuth(token, usrs, dbOk, clock) ==
    IF token.kind = "absent"
    THEN [nextCalls |-> 1, nextErr |-> NoErr, user |-> NoUser]
    ELSE LET e == jwtVerify(token, JWT_SECRET, AccessVerifyOpts, clock)
         IN IF e = NoErr /\ dbOk /\ token.userId \in usrs
            THEN [nextCalls |-> 1, nextErr |-> NoErr, user |-> token.userId]
            ELSE [nextCalls |-> 1, nextErr |-> NoErr, user |-> NoUser]

RefreshTryNoTypeCheck(token, usrs, dbOk, clock) ==
    LET e == jwtVerify(token, JWT_REFRESH_SECRET, RefreshVerifyOpts, clock)
    IN IF e # NoErr THEN e
       ELSE IF ~dbOk THEN PlainError("database unavailable")
       ELSE IF token.userId \notin usrs
       THEN AppError("User not found", 401)
       ELSE NoErr

\* The body of the try block of refreshToken: the error thrown, or NoErr.
RefreshTry(token, usrs, dbOk, clock) ==
    LET e == jwtVerify(token, JWT_REFRESH_SECRET, RefreshVerifyOpts, clock)
    IN IF e # NoErr THEN e
       ELSE IF token.type # "refresh"
       THEN AppError("Invalid token type", 401)
       ELSE IF ~dbOk THEN PlainError("database unavailable")
       ELSE IF token.userId \notin usrs
       THEN AppError("User not found", 401)
       ELSE NoErr

\* AuthService.refreshToken: a new pair, or the AppError of its catch block.
refreshToken(token, usrs, dbOk, clock) ==
    IF RefreshTry(token, usrs, dbOk, clock) = NoErr
    THEN [ok |-> TRUE, err |-> NoErr,
          pair |-> generateTokens(token.userId, RoleOf(token.userId), clock)]
    ELSE [ok |-> FALSE, err |-> AppError("Invalid refresh token", 401),
          pair |-> NoPair]

(***************************************************************************)
(* Accounts.  An email address is the sequence of its parts; a password is *)
(* the record of the properties validatePasswordStrength looks at, and its *)
(* text.                                                                   *)
(***************************************************************************)
Email(local, domain, tld) == <<local, "@", domain, ".", tld>>

EmailOf(u) == Email(u, "example", "com")

\* String.toLowerCase, part by part.
ToLowerCase(e) == [i \in DOMAIN e |-> IF e[i] = "U1" THEN "u1" ELSE e[i]]

\* isValidEmail: /^[^\s@]+@[^\s@]+\.[^\s@]+$/
isValidEmail(e) ==
    /\ Len(e) = 5
    /\ e[2] = "@"
    /\ e[4] = "."
    /\ \A i \in {1, 3, 5} : e[i] \notin {"", "@", " "}

Password(text, length, lower, upper, digit, special, common, sequential) ==
    [text |-> text, length |-> length, lower |-> lower, upper |-> upper,
     digit |-> digit, special |-> special, common |-> common,
     sequential |-> sequential]

\* Math.max(0, n)
Max0(n) == IF n > 0 THEN n ELSE 0

\* validatePasswordStrength: the score before it is capped at 6.
PasswordScore(p) ==
    LET s1 == (IF p.length >= 8 THEN 1 ELSE 0)
              + (IF p.length >= 12 THEN 1 ELSE 0)
              + (IF p.lower THEN 1 ELSE 0)
              + (IF p.upper THEN 1 ELSE 0)
              + (IF p.digit THEN 1 ELSE 0)
              + (IF p.special THEN 1 ELSE 0)
        s2 == IF p.common THEN Max0(s1 - 2) ELSE s1
    IN IF p.sequential THEN Max0(s2 - 1) ELSE s2

\* validatePasswordStrength(password).isStrong
isStrong(p) == PasswordScore(p) >= 4

\* bcrypt.hash / bcrypt.compare
bcryptHash(p) == [alg |-> "bcrypt", of |-> p.text]

bcryptCompare(p, hash) == hash = bcryptHash(p)

NoResetToken == "null"

\* prisma.user.findUnique({where: {email}}): the id of the row, or NoUser.
FindByEmail(usrs, accts, email) ==
    IF \E u \in usrs : accts[u].email = email
    THEN CHOOSE u \in usrs : accts[u].email = email
    ELSE NoUser

\* prisma.user.findFirst({where: {passwordResetToken}})
FindByResetToken(usrs, accts, token) ==
    IF \E u \in usrs : accts[u].passwordResetToken = token
    THEN CHOOSE u \in usrs : accts[u].passwordResetToken = token
    ELSE NoUser

\* The first of two errors that was raised.
FirstErr(a, b) == IF a # NoErr THEN a ELSE b

\* The catch block of login: an AppError is rethrown, anything else
\* becomes AppError('Login failed', 500).
LoginCatch(error) ==
    IF error = NoErr THEN NoErr
    ELSE IF InstanceOf(error, "AppError") THEN error
    ELSE AppError("Login failed", 500)

LoginTryNamesMissingUser(email, password, usrs, accts, dbOk, auditOk) ==
    IF ~isValidEmail(email)
    THEN [err |-> AppError("Invalid credentials", 401), user |-> NoUser,
          audit |-> NoAudit]
    ELSE IF ~dbOk
    THEN [err |-> PlainError("database unavailable"), user |-> NoUser,
          audit |-> NoAudit]
    ELSE LET found == FindByEmail(usrs, accts, ToLowerCase(email))
         IN IF found = NoUser
            THEN [err |-> FirstErr(AuditLogError(auditOk),
                                   AppError("User not found", 401)),
                  user |-> NoUser,
                  audit |-> logAuth(NoUser, "LOGIN_FAILED", "")]
            ELSE IF ~bcryptCompare(password, accts[found].password)
            THEN [err |-> FirstErr(AuditLogError(auditOk),
                                   AppError("Invalid credentials", 401)),
                  user |-> NoUser,
                  audit |-> logAuth(found, "LOGIN_FAILED", "")]
            ELSE [err |-> AuditLogError(auditOk), user |-> found,
                  audit |-> logAuth(found, "LOGIN", "")]

\* The body of the try block of login: the error thrown (or NoErr), the
\* user who logged in, and the audit event it asks AuditService to write.
\* The route hands on email and password only, so the event has no address.
LoginTry(email, password, usrs, accts, dbOk, auditOk) ==
    IF ~isValidEmail(email)
    THEN [err |-> AppError("Invalid credentials", 401), user |-> NoUser,
          audit |-> NoAudit]
    ELSE IF ~dbOk
    THEN [err |-> PlainError("database unavailable"), user |-> NoUser,
          audit |-> NoAudit]
    ELSE LET found == FindByEmail(usrs, accts, ToLowerCase(email))
         IN IF found = NoUser
            THEN [err |-> FirstErr(AuditLogError(auditOk),
                                   AppError("Invalid credentials", 401)),
                  user |-> NoUser,
                  audit |-> logAuth(NoUser, "LOGIN_FAILED", "")]
            ELSE IF ~bcryptCompare(password, accts[found].password)
            THEN [err |-> FirstErr(AuditLogError(auditOk),
                                   AppError("Invalid credentials", 401)),
                  user |-> NoUser,
                  audit |-> logAuth(found, "LOGIN_FAILED", "")]
            ELSE [err |-> AuditLogError(auditOk), user |-> found,
                  audit |-> logAuth(found, "LOGIN", "")]

\* AuthService.login: the user and a new pair, or the error of its catch
\* block; audit is the event handed to AuditService on the way.
login(email, password, usrs, accts, dbOk, auditOk, clock) ==
    LET t == LoginTry(email, password, usrs, accts, dbOk, auditOk)
    IN IF t.err = NoErr
       THEN [ok |-> TRUE, err |-> NoErr, user |-> t.user, audit |-> t.audit,
             pair |-> generateTokens(t.user, RoleOf(t.user), clock)]
       ELSE [ok |-> FALSE, err |-> LoginCatch(t.err), user |-> NoUser,
             audit |-> t.audit, pair |-> NoPair]

\* What the client sees of a call: status and message of the response.
Response(ok, err) ==
    IF ok THEN [status |-> 200, message |-> "success"] ELSE errorHandler(err)

\* AuthService.changePassword: the error (or NoErr), the audit event and
\* the rows of the user table afterwards.
changePassword(userId, currentPassword, newPassword, usrs, accts, dbOk) ==
    IF ~dbOk
    THEN [err |-> AppError("Password change failed", 500),
          audit |-> NoAudit, accounts |-> accts]
    ELSE IF userId \notin usrs
    THEN [err |-> AppError("User not found", 404), audit |-> NoAudit,
          accounts |-> accts]
    ELSE IF ~bcryptCompare(currentPassword, accts[userId].password)
    THEN [err |-> AppError("Current password is incorrect", 401),
          audit |-> logAuth(userId, "PASSWORD_RESET", ""),
          accounts |-> accts]
    ELSE IF ~isStrong(newPassword)
    THEN [err |-> AppError("Password is not strong enough", 400),
          audit |-> NoAudit, accounts |-> accts]
    ELSE IF bcryptCompare(newPassword, accts[userId].password)
    THEN [err |-> AppError("New password must be different from current password", 400),
          audit |-> NoAudit, accounts |-> accts]
    ELSE [err |-> NoErr, audit |-> logAuth(userId, "PASSWORD_RESET", ""),
          accounts |-> [accts EXCEPT
                          ![userId].password = bcryptHash(newPassword)]]

\* AuthService.requestPasswordReset: stores a new reset token (uuid) for
\* the user of the address, if there is one.
requestPasswordReset(email, uuid, usrs, accts, dbOk) ==
    IF ~dbOk
    THEN [err |-> AppError("Password reset request failed", 500),
          audit |-> NoAudit, accounts |-> accts]
    ELSE LET found == FindByEmail(usrs, accts, ToLowerCase(email))
         IN IF found = NoUser
            THEN [err |-> NoErr, audit |-> NoAudit, accounts |-> accts]
            ELSE [err |-> NoErr,
                  audit |-> logAuth(found, "PASSWORD_RESET", ""),
                  accounts |-> [accts EXCEPT
                                  ![found].passwordResetToken = uuid]]

\* AuthService.resetPassword
resetPassword(token, newPassword, usrs, accts, dbOk) ==
    IF ~isStrong(newPassword)
    THEN [err |-> AppError("Password is not strong enough", 400),
          audit |-> NoAudit, accounts |-> accts, user |-> NoUser]
    ELSE IF ~dbOk
    THEN [err |-> AppError("Password reset failed", 500), audit |-> NoAudit,
          accounts |-> accts, user |-> NoUser]
    ELSE LET found == FindByResetToken(usrs, accts, token)
         IN IF found = NoUser
            THEN [err |-> AppError("Invalid reset token", 400),
                  audit |-> NoAudit, accounts |-> accts, user |-> NoUser]
            ELSE [err |-> NoErr,
                  audit |-> logAuth(found, "PASSWORD_RESET", ""),
                  accounts |-> [accts EXCEPT
                                  ![found].password = bcryptHash(newPassword),
                                  ![found].passwordResetToken = NoResetToken],
                  user |-> found]

(***************************************************************************)
(* Input screening.  A string is the sequence of its words and symbols; a  *)
(* request value is a string, a number or an object of further values.     *)
(***************************************************************************)
\* The upper-case form of a word (the patterns carry the i flag).
ToUpperCase(w) ==
    CASE w = "select" -> "SELECT"
      [] w = "union" -> "UNION"
      [] w = "or" -> "OR"
      [] w = "and" -> "AND"
      [] w = "<Script>" -> "<SCRIPT>"
      [] w = "</script>" -> "</SCRIPT>"
      [] w = "OnClick=" -> "ONCLICK="
      [] w = "javascript:" -> "JAVASCRIPT:"
      [] w = "<iframe" -> "<IFRAME"
      [] OTHER -> w

SqlKeywords ==
    {"SELECT", "INSERT", "UPDATE", "DELETE", "DROP", "CREATE", "ALTER",
     "EXEC", "EXECUTE"}

SqlSymbols == {"--", ";", "/*", "*/", "xp_"}

Junctors == {"OR", "AND"}

\* Words that match on\w+\s*= .
EventHandlers == {"ONCLICK=", "ONERROR=", "ONLOAD="}

\* hasSQLInjection: one of the four patterns matches somewhere in input.
hasSQLInjection(input) ==
    \/ \E i \in 1..Len(input) : ToUpperCase(input[i]) \in SqlKeywords
    \/ \E i \in 1..Len(input) : ToUpperCase(input[i]) \in SqlSymbols
    \/ \E i, j, k \in 1..Len(input) :
          /\ i < j /\ j < k
          /\ ToUpperCase(input[i]) \in Junctors
          /\ input[j] = "="
          /\ ToUpperCase(input[k]) \in Junctors
    \/ \E i, j \in 1..Len(input) :
          /\ i < j
          /\ ToUpperCase(input[i]) = "UNION"
          /\ ToUpperCase(input[j]) = "SELECT"

\* hasXSS: one of the six patterns matches somewhere in input.
hasXSS(input) ==
    \/ \E i, j \in 1..Len(input) :
          /\ i < j
          /\ ToUpperCase(input[i]) = "<SCRIPT>"
          /\ ToUpperCase(input[j]) = "</SCRIPT>"
    \/ \E i \in 1..Len(input) :
          ToUpperCase(input[i]) \in
              {"<IFRAME", "JAVASCRIPT:", "<EMBED", "<OBJECT"}
              \cup EventHandlers

Str(text) == [kind |-> "string", text |-> text, fields |-> <<>>]

Num == [kind |-> "number", text |-> <<>>, fields |-> <<>>]

Obj(fields) == [kind |-> "object", text |-> <<>>, fields |-> fields]

Undefined == [kind |-> "undefined", text |-> <<>>, fields |-> <<>>]

NoInput == [body |-> Undefined, query |-> Undefined, params |-> Undefined]

\* checkValue throws: the value is a string one of the two detectors
\* matches, or an object one of whose entries makes checkValue throw.
RECURSIVE checkValueThrows(_)
checkValueThrows(value) ==
    IF value.kind = "string"
    THEN hasSQLInjection(value.text) \/ hasXSS(value.text)
    ELSE IF value.kind = "object"
    THEN \E f \in 1..Len(value.fields) : checkValueThrows(value.fields[f])
    ELSE FALSE

\* checkMaliciousPatterns: body, query and params are checked in turn; a
\* match is logged with logger.warn and passed to next() as AppError 400;
\* AuditService is not called (audit).
checkMaliciousPatterns(input) ==
    IF \/ input.body.kind # "undefined" /\ checkValueThrows(input.body)
       \/ input.query.kind # "undefined" /\ checkValueThrows(input.query)
       \/ input.params.kind # "undefined" /\ checkValueThrows(input.params)
    THEN [nextCalls |-> 1, nextErr |-> AppError("Invalid input detected", 400),
          logged |-> TRUE, audit |-> FALSE]
    ELSE [nextCalls |-> 1, nextErr |-> NoErr, logged |-> FALSE,
          audit |-> FALSE]

(***************************************************************************)
(* Middleware results.                                                     *)
(***************************************************************************)
checkIPBlockNoThrow(isBlocked) ==
    [nextCalls |-> 1, nextErr |-> NoErr, audit |-> isBlocked]

\* checkIPBlock: a blocked address is audited and handed to next(error)
\* with AppError 403; any other request is handed on with next().
checkIPBlock(isBlocked) ==
    IF isBlocked
    THEN [nextCalls |-> 1, nextErr |-> AppError("Access denied", 403),
          audit |-> TRUE]
    ELSE [nextCalls |-> 1, nextErr |-> NoErr, audit |-> FALSE]

\* The middleware returned by advancedRateLimiter, default handler.
\*   fault   : multi.exec() rejected, the catch block runs;
\*   over    : count > max, the event is audited and defaultHandler throws
\*             inside the try block, so the catch block runs;
\*   allowed : res.end is wrapped and next() is called.
advancedRateLimiter(set, expireAt, at, cfg, redisOk) ==
    IF ~redisOk
    THEN [branch |-> "fault", set |-> set, expireAt |-> expireAt,
          count |-> 0, audit |-> FALSE, endHook |-> FALSE,
          res |-> RateLimiterCatch(PlainError("redis unavailable"))]
    ELSE LET m == MultiExec(set, at, cfg.windowMs)
         IN IF OverLimit(m.count, cfg.max)
            THEN [branch |-> "over", set |-> m.set, expireAt |-> m.expireAt,
                  count |-> m.count, audit |-> TRUE, endHook |-> FALSE,
                  res |-> RateLimiterCatch(defaultHandler)]
            ELSE [branch |-> "allowed", set |-> m.set,
                  expireAt |-> m.expireAt, count |-> m.count,
                  audit |-> FALSE, endHook |-> TRUE,
                  res |-> [nextCalls |-> 1, nextErr |-> NoErr,
                           logged |-> FALSE]]

\* The wrapped res.end: whether the request's own entry is retracted.
SkipEntry(cfg, statusCode) ==
    \/ cfg.skipSuccessfulRequests /\ statusCode < 400
    \/ cfg.skipFailedRequests /\ statusCode >= 400

(***************************************************************************)
(* Order of the admission pipeline for one request.                        *)
(***************************************************************************)
\* The stage that follows the reputation check: routes without an
\* authentication policy go straight to the limiter.
AfterIpCheck(policy) == IF policy = "none" THEN "limit" ELSE "auth"

AfterAuth == "limit"

AfterLimit == "handler"

\* Content-bearing routes put the malicious-pattern screen between the
\* limiter and the handler.
AfterLimitOf(policy) == IF policy = "content" THEN "screen" ELSE AfterLimit

AfterScreen == "handler"

Configs ==
    {[windowMs |-> WindowMsCfg, max |-> m, skipSuccessfulRequests |-> s,
      skipFailedRequests |-> FALSE] : m \in 1..MaxMax, s \in BOOLEAN}

ValidAccess == generateTokens("u1", RoleOf("u1"), 0).accessToken

ExpiredAccess == Jwt("u1", RoleOf("u1"), "none", JWT_SECRET, Issuer, Audience, 0)

\* The requests that arrive: route policy and presented token.
ReqKinds ==
    {<<"none", NoToken>>, <<"mandatory", ValidAccess>>,
     <<"mandatory", ExpiredAccess>>, <<"optional", ExpiredAccess>>}

HandlerStatuses == {200, 401}

\* The source addresses of the requests to the limiter-only routes.
RouteIPs == {"ip1"}

\* The addresses the operator blocks; the other address is never blocked.
BlockableIPs == {"ip1"}

\* The limiter configuration of the pipeline's routes.
PipeConfig ==
    [windowMs |-> WindowMsCfg, max |-> 1, skipSuccessfulRequests |-> FALSE,
     skipFailedRequests |-> FALSE]

\* presented: the token is the access / refresh token of the pair issued
\* most recently before the call, or another one.
NoPassword == Password("", 0, FALSE, FALSE, FALSE, FALSE, FALSE, FALSE)

NoOp == [op |-> "none", token |-> NoToken, presented |-> "other", at |-> 0,
         dbOk |-> TRUE, ok |-> FALSE, user |-> NoUser, err |-> NoErr, pair |-> NoPair,
         email |-> <<>>, password |-> NoPassword, auditOk |-> TRUE,
         nodeEnv |-> "", status |-> 0, body |-> NoBody]

NewReq(ip, policy, token) ==
    [ip |-> ip, policy |-> policy, token |-> token, stage |-> "ipcheck",
     user |-> NoUser, ts |-> 0, endHook |-> FALSE, input |-> NoInput]

\* A request whose response has been sent.
DoneReq == [NewReq("", "none", NoToken) EXCEPT !.stage = "done"]

\* redisOk: the step's Redis call succeeded; dbOk: the audit write the
\* step attempted, if any, succeeded.
NoStep == [step |-> "none", id |-> 0, ip |-> "", entryLive |-> FALSE,
           redisOk |-> TRUE, dbOk |-> TRUE, branch |-> "none", count |-> 0,
           nextCalls |-> 0, nextErr |-> "none", logged |-> FALSE, status |-> 0,
           audits |-> 0, remaining |-> 0, resetAt |-> 0, inWindow |-> 0,
           days |-> 0, answer |-> FALSE]

\* No blockIP call has reached the store, or the entry was deleted.
NoBlock == [set |-> FALSE, at |-> 0, dur |-> 0]

\* The passwords of the model: two that validatePasswordStrength accepts
\* and one it refuses.
StrongPassword ==
    Password("Vq7#mLp2$xTz", 12, TRUE, TRUE, TRUE, TRUE, FALSE, FALSE)

OtherStrongPassword ==
    Password("Hj4!wRn8&bKs", 12, TRUE, TRUE, TRUE, TRUE, FALSE, FALSE)

WeakPassword == Password("abc", 3, TRUE, FALSE, FALSE, FALSE, FALSE, TRUE)

InitialPassword == StrongPassword

\* A middleware finished with result res: the request moves to stage nxt,
\* or the error goes to errorHandler and the response is sent.
Proceed(r, res, nxt) ==
    IF res.nextErr = NoErr
    THEN [r EXCEPT !.stage = nxt]
    ELSE DoneReq

\* The status of the response a middleware result leads to (0: none yet).
StatusOf(res) ==
    IF res.nextErr = NoErr THEN 0 ELSE errorHandler(res.nextErr).status

\* The evaluations of the trailing window ending at time at.
Trailing(h, at, windowMs) == SelectSeq(h, LAMBDA e : e.ts > at - windowMs)

\* Rows of the book table.  exists is FALSE for an id that has no row.
BookIds == {1, 2}

Book(id, authorId, isPublic, status, moderationStatus) ==
    [exists |-> TRUE, id |-> id, authorId |-> authorId,
     isPublic |-> isPublic, status |-> status,
     moderationStatus |-> moderationStatus, viewCount |-> 0]

NoBook ==
    [exists |-> FALSE, id |-> 0, authorId |-> NoUser, isPublic |-> FALSE,
     status |-> "", moderationStatus |-> "", viewCount |-> 0]

\* JSON.stringify / JSON.parse of a book row: the text lists the fields.
JSONStringify(book) ==
    <<book.id, book.authorId, book.isPublic, book.status,
      book.moderationStatus, book.viewCount>>

JSONParse(text) ==
    [exists |-> TRUE, id |-> text[1], authorId |-> text[2],
     isPublic |-> text[3], status |-> text[4],
     moderationStatus |-> text[5], viewCount |-> text[6]]

\* A cache key without a value (redisClient.get answers null).
NoEntry == [value |-> <<>>, exp |-> 0]

\* The subscription register() creates: FREE tier, monthlyBookLimit 3.
MonthlyBookLimit == 3

FreeSubscription ==
    [tier |-> "FREE", monthlyBookLimit |-> MonthlyBookLimit,
     booksCreatedThisMonth |-> 0]

\* A service call in progress: its arguments, its position (pc) and the
\* values it has read so far.
NoCall ==
    [op |-> "none", pc |-> "done", caller |-> NoUser, bookId |-> 0,
     token |-> NoResetToken, password |-> NoPassword, book |-> NoBook,
     user |-> NoUser, ok |-> FALSE, err |-> NoErr, result |-> NoBook,
     afterDelete |-> FALSE, retry |-> FALSE, refreshes |-> 0,
     replays |-> 0, sent |-> 0, status |-> 0]

\* localStorage without a session; a token is named by a number, 0 is
\* an absent item.
NoSession ==
    [accessToken |-> 0, refreshToken |-> 0, user |-> FALSE,
     location |-> "/"]

\* The state after construction, with the rows usrs in the user table and
\* the rows lib in the book table.
StartWith(cfg, usrs, lib) ==
    /\ now = 0
    /\ config = cfg
    /\ zset = [k \in Keys |-> {}]
    /\ zexp = [k \in Keys |-> 0]
    /\ blocked = [a \in IPs |-> 0]
    /\ nblock = 0
    /\ auditLog = <<>>
    /\ reqs = <<>>
    /\ hist = [k \in Keys |-> <<>>]
    /\ last = NoStep
    /\ users = usrs
    /\ tokClock = 0
    /\ issued = NoPair
    /\ lastOp = NoOp
    /\ accounts = [u \in UserIds |->
                     [email |-> EmailOf(u),
                      password |-> bcryptHash(InitialPassword),
                      passwordResetToken |-> NoResetToken]]
    /\ changedAt = [u \in UserIds |-> -1]
    /\ rotated = {}
    /\ lastBlock = [a \in IPs |-> NoBlock]
    /\ books = lib
    /\ cache = [b \in BookIds |-> NoEntry]
    /\ subscriptions = [u \in UserIds |-> FreeSubscription]
    /\ calls = <<>>
    /\ browser = NoSession

\* The state after construction of a limiter with configuration cfg.
Start(cfg) == StartWith(cfg, {"u1"}, [b \in BookIds |-> NoBook])

Init == \E cfg \in Configs : Start(cfg)

(***************************************************************************)
(* Pipeline actions.  redisOk / dbOk say whether the calls the step makes  *)
(* to Redis / to the database succeed.                                     *)
(***************************************************************************)
CheckIPBlock(ip, policy, token, redisOk, dbOk) ==
    /\ Len(reqs) < MaxPipeReq
    /\ LET res == checkIPBlock(isIPBlocked(blocked, ip, redisOk))
           log == IF res.audit
                  THEN logSecurity(auditLog, "BLOCKED_IP", ip, dbOk, now)
                  ELSE auditLog
       IN /\ reqs' = Append(reqs, Proceed(NewReq(ip, policy, token), res,
                                          AfterIpCheck(policy)))
          /\ auditLog' = log
          /\ last' = [NoStep EXCEPT
                        !.step = "checkIPBlock", !.id = Len(reqs) + 1,
                        !.ip = ip,
                        !.entryLive = BlockEntryLive(blocked, ip),
                        !.redisOk = redisOk,
                        !.dbOk = res.audit => dbOk,
                        !.nextCalls = res.nextCalls,
                        !.nextErr = res.nextErr.cls,
                        !.status = StatusOf(res),
                        !.audits = Len(log) - Len(auditLog)]
    /\ UNCHANGED <<now, config, zset, zexp, blocked, nblock, hist>>
    /\ UNCHANGED tokVars
    /\ UNCHANGED svcVars

Auth(i, dbOk) ==
    /\ reqs[i].stage = "auth"
    /\ LET r == reqs[i]
           res == IF r.policy = "mandatory"
                  THEN authenticate(r.token, users, dbOk, tokClock)
                  ELSE optionalAuth(r.token, users, dbOk, tokClock)
       IN /\ reqs' = [reqs EXCEPT ![i] =
                        Proceed([r EXCEPT !.user = res.user], res, AfterAuth)]
          /\ last' = [NoStep EXCEPT
                        !.step = "auth", !.id = i, !.ip = r.ip,
                        !.nextCalls = res.nextCalls,
                        !.nextErr = res.nextErr.cls,
                        !.status = StatusOf(res)]
    /\ UNCHANGED <<now, config, zset, zexp, blocked, nblock, auditLog, hist>>
    /\ UNCHANGED tokVars
    /\ UNCHANGED svcVars

\* One evaluation of the limiter for request r, which is (or becomes)
\* entry i of base.
RateLimitOn(i, r, base, redisOk, dbOk) ==
    LET key == defaultKeyGenerator(r.user, r.ip)
        out == advancedRateLimiter(zset[key], zexp[key], now, config,
                                   redisOk)
        log == IF out.audit
               THEN logSecurity(auditLog, "RATE_LIMIT_EXCEEDED", r.ip,
                                dbOk, now)
               ELSE auditLog
        h == IF redisOk
             THEN Append(hist[key], [ts |-> now, branch |-> out.branch])
             ELSE hist[key]
    IN /\ zset' = [zset EXCEPT ![key] = out.set]
       /\ zexp' = [zexp EXCEPT ![key] = out.expireAt]
       /\ auditLog' = log
       /\ hist' = [hist EXCEPT ![key] = h]
       /\ reqs' = [base EXCEPT ![i] =
                     Proceed([r EXCEPT
                                !.ts = IF out.endHook THEN now ELSE 0,
                                !.endHook = out.endHook],
                             out.res, AfterLimitOf(r.policy))]
       /\ last' = [NoStep EXCEPT
                     !.step = "rateLimit", !.id = i, !.ip = r.ip,
                     !.redisOk = redisOk,
                     !.dbOk = out.audit => dbOk,
                     !.branch = out.branch, !.count = out.count,
                     !.nextCalls = out.res.nextCalls,
                     !.nextErr = out.res.nextErr.cls,
                     !.logged = out.res.logged,
                     !.status = StatusOf(out.res),
                     !.audits = Len(log) - Len(auditLog),
                     !.remaining = Remaining(config.max, out.count),
                     !.resetAt = now + config.windowMs,
                     !.inWindow = Len(h)]
       /\ UNCHANGED <<now, config, blocked, nblock>>
       /\ UNCHANGED tokVars
       /\ UNCHANGED svcVars
    /\ UNCHANGED svcVars

\* The limiter as a stage of the admission pipeline.
RateLimit(i, redisOk, dbOk) ==
    /\ reqs[i].stage = "limit"
    /\ RateLimitOn(i, reqs[i], reqs, redisOk, dbOk)

\* A request to a route whose only middleware is the limiter
\* (router.post('/login', authLimiter, ...)).
LimitedRoute(ip, redisOk, dbOk) ==
    /\ Len(reqs) < MaxReq
    /\ LET r == [NewReq(ip, "none", NoToken) EXCEPT !.stage = "limit"]
       IN RateLimitOn(Len(reqs) + 1, r, Append(reqs, r), redisOk, dbOk)

\* The response of request i ends with statusCode: the wrapped res.end
\* retracts the request's entry when the configuration says so.
ResEndAt(step, i, statusCode, redisOk) ==
    LET r == reqs[i]
        key == defaultKeyGenerator(r.user, r.ip)
        retract == r.endHook /\ SkipEntry(config, statusCode) /\ redisOk
        left == zRem(zset[key], r.ts)
    IN /\ zset' = IF retract THEN [zset EXCEPT ![key] = left] ELSE zset
       /\ zexp' = IF retract /\ left = {}
                  THEN [zexp EXCEPT ![key] = 0] ELSE zexp
       /\ reqs' = [reqs EXCEPT ![i] = DoneReq]
       /\ last' = [NoStep EXCEPT
                     !.step = step, !.id = i, !.ip = r.ip,
                     !.status = statusCode]

ResEnd(i, statusCode, redisOk) == ResEndAt("handler", i, statusCode, redisOk)

\* The business handler answers with statusCode.
Handler(i, statusCode, redisOk) ==
    /\ reqs[i].stage = "handler"
    /\ ResEnd(i, statusCode, redisOk)
    /\ UNCHANGED <<now, config, blocked, nblock, auditLog, hist>>
    /\ UNCHANGED tokVars
    /\ UNCHANGED svcVars

\* ms milliseconds pass, up to time maxNow; Redis drops the keys and block
\* entries whose TTL ran out.
TickBy(ms, maxNow) ==
    /\ now + ms <= maxNow
    /\ now' = now + ms
    /\ zset' = [k \in Keys |->
                  IF zexp[k] # 0 /\ now' >= zexp[k] THEN {} ELSE zset[k]]
    /\ zexp' = [k \in Keys |->
                  IF zexp[k] # 0 /\ now' >= zexp[k] THEN 0 ELSE zexp[k]]
    /\ blocked' = [a \in IPs |->
                  IF blocked[a] # 0 /\ now' >= blocked[a] THEN 0
                  ELSE blocked[a]]
    /\ hist' = [k \in Keys |-> Trailing(hist[k], now', config.windowMs)]
    /\ last' = [NoStep EXCEPT !.step = "tick"]
    /\ UNCHANGED <<config, nblock, auditLog, reqs>>
    /\ UNCHANGED tokVars
    /\ UNCHANGED svcVars

Tick == TickBy(TickMs, MaxTicks * TickMs)

setExMillis(blk, ip, seconds, at) == [blk EXCEPT ![ip] = at + seconds]

\* redisClient.setEx(key, seconds, '1'): the entry lives for seconds.
setEx(blk, ip, seconds, at) == [blk EXCEPT ![ip] = at + seconds * 1000]

\* blockIP(ip, durationSeconds): setEx, then the security event; a store
\* error is caught before the event is written.
BlockIPCall(ip, durationSeconds, redisOk, dbOk) ==
    /\ nblock' = nblock + 1
    /\ IF redisOk
       THEN /\ blocked' = setEx(blocked, ip, durationSeconds, now)
            /\ auditLog' = logSecurity(auditLog, "BLOCKED_IP", ip, dbOk, now)
            /\ lastBlock' = [lastBlock EXCEPT ![ip] =
                               [set |-> TRUE, at |-> now,
                                dur |-> durationSeconds]]
       ELSE UNCHANGED <<blocked, auditLog, lastBlock>>
    /\ last' = [NoStep EXCEPT !.step = "blockIP", !.ip = ip,
                              !.redisOk = redisOk,
                              !.dbOk = redisOk => dbOk]
    /\ UNCHANGED <<now, config, zset, zexp, reqs, hist>>
    /\ UNCHANGED tokVars
    /\ UNCHANGED <<accounts, changedAt, rotated>>
    /\ UNCHANGED bookVars

BlockIP(ip, durationSeconds, redisOk, dbOk) ==
    /\ nblock < MaxBlockCalls
    /\ BlockIPCall(ip, durationSeconds, redisOk, dbOk)

\* unblockIP(ip): del; shown for the calls that remove an entry.
UnblockIP(ip) ==
    /\ blocked[ip] # 0
    /\ blocked' = [blocked EXCEPT ![ip] = 0]
    /\ lastBlock' = [lastBlock EXCEPT ![ip] = NoBlock]
    /\ last' = [NoStep EXCEPT !.step = "unblockIP", !.ip = ip]
    /\ UNCHANGED <<now, config, zset, zexp, nblock, auditLog, reqs, hist>>
    /\ UNCHANGED tokVars
    /\ UNCHANGED <<accounts, changedAt, rotated>>
    /\ UNCHANGED bookVars

\* Routes guarded by the limiter alone.
Next ==
    \/ \E ip \in RouteIPs, ro \in BOOLEAN, do \in BOOLEAN :
          LimitedRoute(ip, ro, do)
    \/ \E i \in 1..Len(reqs), s \in HandlerStatuses, ro \in BOOLEAN :
          Handler(i, s, ro)
    \/ Tick

Spec == Init /\ [][Next]_vars

\* The whole admission pipeline.
NextPipe ==
    \/ \E ip \in IPs, k \in ReqKinds, ro \in BOOLEAN, do \in BOOLEAN :
          CheckIPBlock(ip, k[1], k[2], ro, do)
    \/ \E i \in 1..Len(reqs), do \in BOOLEAN : Auth(i, do)
    \/ \E i \in 1..Len(reqs), ro \in BOOLEAN, do \in BOOLEAN :
          RateLimit(i, ro, do)
    \/ \E i \in 1..Len(reqs), s \in HandlerStatuses, ro \in BOOLEAN :
          Handler(i, s, ro)
    \/ Tick
    \/ \E ip \in BlockableIPs, ro \in BOOLEAN, do \in BOOLEAN :
          BlockIP(ip, BlockSecondsCfg, ro, do)
    \/ \E ip \in BlockableIPs : UnblockIP(ip)

InitPipe == Init /\ config = PipeConfig

SpecPipe == InitPipe /\ [][NextPipe]_vars

(***************************************************************************)
(* Token-service actions.  Any token can be presented: signed with either  *)
(* secret of the service or with a foreign key, with the service's issuer  *)
(* and audience or others, of either type, for an existing or a missing    *)
(* user, with any expiry; or a string that is no JWT; or nothing.  The      *)
(* calls are made one at a time.                                           *)
(***************************************************************************)
SigningKeys == {JWT_SECRET, JWT_REFRESH_SECRET, "foreign-key"}

\* Issuer and audience of a presented token: the service's own, a foreign
\* issuer, or a foreign audience.
IssAud ==
    {<<Issuer, Audience>>, <<"other-issuer", Audience>>,
     <<Issuer, "other-api">>}

TokenUniverse ==
    {Jwt(u, RoleOf(u), ty, k, ia[1], ia[2], e) :
        u \in UserIds, ty \in {"none", "refresh"}, k \in SigningKeys,
        ia \in IssAud, e \in 1..(MaxTokClock + RefreshTtl)}
    \cup {Garbage, NoToken}

PresentedAs(token) ==
    IF issued # NoPair /\ token = issued.accessToken THEN "access"
    ELSE IF issued # NoPair /\ token = issued.refreshToken THEN "refresh"
    ELSE "other"

TokTick ==
    /\ tokClock < MaxTokClock
    /\ tokClock' = tokClock + 1
    /\ lastOp' = NoOp
    /\ UNCHANGED <<users, issued>>
    /\ UNCHANGED pipeVars
    /\ UNCHANGED svcVars

\* A successful login or registration of user u hands out a new pair.
IssueTokens(u) ==
    /\ lastOp = NoOp
    /\ u \in users
    /\ LET pair == generateTokens(u, RoleOf(u), tokClock)
       IN /\ issued' = pair
          /\ lastOp' = [NoOp EXCEPT !.op = "issue", !.at = tokClock,
                                    !.ok = TRUE, !.user = u, !.pair = pair]
    /\ UNCHANGED <<users, tokClock>>
    /\ UNCHANGED pipeVars
    /\ UNCHANGED svcVars

Authenticate(token, dbOk) ==
    /\ lastOp = NoOp
    /\ LET res == authenticate(token, users, dbOk, tokClock)
       IN lastOp' = [NoOp EXCEPT !.op = "authenticate", !.token = token,
                                 !.presented = PresentedAs(token),
                                 !.at = tokClock, !.dbOk = dbOk,
                                 !.ok = (res.nextErr = NoErr),
                                 !.user = res.user, !.err = res.nextErr]
    /\ UNCHANGED <<users, tokClock, issued>>
    /\ UNCHANGED pipeVars
    /\ UNCHANGED svcVars

OptionalAuth(token, dbOk) ==
    /\ lastOp = NoOp
    /\ LET res == optionalAuth(token, users, dbOk, tokClock)
       IN lastOp' = [NoOp EXCEPT !.op = "optionalAuth", !.token = token,
                                 !.presented = PresentedAs(token),
                                 !.at = tokClock, !.dbOk = dbOk,
                                 !.ok = (res.nextErr = NoErr),
                                 !.user = res.user, !.err = res.nextErr]
    /\ UNCHANGED <<users, tokClock, issued>>
    /\ UNCHANGED pipeVars
    /\ UNCHANGED svcVars

\* A call of refreshToken with its result.
RefreshCall(token, dbOk) ==
    /\ lastOp = NoOp
    /\ LET res == refreshToken(token, users, dbOk, tokClock)
       IN /\ lastOp' = [NoOp EXCEPT !.op = "refreshToken", !.token = token,
                                    !.presented = PresentedAs(token),
                                    !.at = tokClock, !.dbOk = dbOk,
                                    !.ok = res.ok,
                                    !.user = IF res.ok THEN token.userId
                                             ELSE NoUser,
                                    !.err = res.err, !.pair = res.pair]
          /\ issued' = IF res.ok THEN res.pair ELSE issued
    /\ UNCHANGED <<users, tokClock>>
    /\ UNCHANGED pipeVars

RefreshToken(token, dbOk) ==
    /\ RefreshCall(token, dbOk)
    /\ UNCHANGED svcVars

\* The caller has taken the result of its call; the next call can be made.
Return ==
    /\ lastOp # NoOp
    /\ lastOp' = NoOp
    /\ UNCHANGED <<users, tokClock, issued>>
    /\ UNCHANGED pipeVars
    /\ UNCHANGED svcVars

NextTok ==
    \/ TokTick
    \/ Return
    \/ \E u \in UserIds : IssueTokens(u)
    \/ \E t \in TokenUniverse, do \in BOOLEAN : Authenticate(t, do)
    \/ \E t \in TokenUniverse, do \in BOOLEAN : OptionalAuth(t, do)
    \/ \E t \in TokenUniverse, do \in BOOLEAN : RefreshToken(t, do)

InitTok == Init /\ config = PipeConfig

SpecTok == InitTok /\ [][NextTok]_vars

(***************************************************************************)
(* The login route: router.post('/login', authLimiter, handler).  The      *)
(* caller sends its requests one after another.                            *)
(***************************************************************************)
\* The limiter of the auth scope evaluates a login request; cap bounds the
\* number of requests.
LoginRoute(ip, cap, redisOk, dbOk) ==
    /\ Len(reqs) < cap
    /\ \A j \in 1..Len(reqs) : reqs[j].stage = "done"
    /\ LET r == [NewReq(ip, "none", NoToken) EXCEPT !.stage = "limit"]
       IN RateLimitOn(Len(reqs) + 1, r, Append(reqs, r), redisOk, dbOk)

\* The route handler calls AuthService.login and answers 200 with the
\* result, or hands the error to errorHandler; then res.end runs.
LoginHandler(i, email, password, dbOk, auditOk, redisOk) ==
    /\ reqs[i].stage = "handler"
    /\ LET res == login(email, password, users, accounts, dbOk, auditOk,
                        tokClock)
       IN /\ ResEnd(i, Response(res.ok, res.err).status, redisOk)
          /\ auditLog' = IF res.audit = NoAudit THEN auditLog
                         ELSE AuditLog(auditLog, res.audit, auditOk, now)
          /\ issued' = IF res.ok THEN res.pair ELSE issued
          /\ lastOp' = [NoOp EXCEPT
                          !.op = "login", !.email = email,
                          !.password = password, !.at = tokClock,
                          !.dbOk = dbOk,
                          !.auditOk = (res.audit # NoAudit) => auditOk,
                          !.ok = res.ok, !.user = res.user, !.err = res.err,
                          !.pair = res.pair]
    /\ UNCHANGED <<now, config, blocked, nblock, hist, users, tokClock>>
    /\ UNCHANGED svcVars

\* The addresses a login request names: the one of user u1, the same in
\* upper case, one no user has, and a string that is no address.
LoginEmails ==
    {EmailOf("u1"), Email("U1", "example", "com"),
     Email("nobody", "example", "com"), <<"u1">>}

LoginPasswords == {InitialPassword, OtherStrongPassword}

NextLogin ==
    \/ \E ip \in RouteIPs, ro \in BOOLEAN, do \in BOOLEAN :
          LoginRoute(ip, MaxLoginReq, ro, do)
    \/ \E i \in 1..Len(reqs), e \in LoginEmails, pw \in LoginPasswords,
          do \in BOOLEAN, ao \in BOOLEAN :
          LoginHandler(i, e, pw, do, ao, TRUE)
    \/ TickBy(TickMs, MaxLoginTicks * TickMs)

\* The limiter of the route counts failed requests only.
InitLogin == Init /\ config.skipSuccessfulRequests

SpecLogin == InitLogin /\ [][NextLogin]_vars

(***************************************************************************)
(* The audit table over days: events are recorded, and the retention job   *)
(* prunes the table.                                                       *)
(***************************************************************************)
\* AuditService.log(data), called by any operation that reports an event.
AuditRecord(data, dbOk) ==
    /\ Len(auditLog) < MaxAuditLen
    /\ auditLog' = AuditLog(auditLog, data, dbOk, now)
    /\ last' = [NoStep EXCEPT !.step = "log", !.dbOk = dbOk,
                              !.audits = Len(auditLog') - Len(auditLog)]
    /\ UNCHANGED <<now, config, zset, zexp, blocked, nblock, reqs, hist>>
    /\ UNCHANGED tokVars
    /\ UNCHANGED svcVars

\* The retention job calls AuditService.cleanOldLogs(daysToKeep).
CleanOldLogs(daysToKeep, dbOk) ==
    /\ LET out == cleanOldLogs(auditLog, daysToKeep, dbOk, now)
       IN /\ auditLog' = out.log
          /\ last' = [NoStep EXCEPT !.step = "cleanOldLogs",
                                    !.dbOk = dbOk, !.count = out.count,
                                    !.days = daysToKeep]
    /\ UNCHANGED <<now, config, zset, zexp, blocked, nblock, reqs, hist>>
    /\ UNCHANGED tokVars
    /\ UNCHANGED svcVars

\* The events the operations of the system report.
AuditInputs ==
    {logAuth("u1", "LOGIN", ""),
     [action |-> "BLOCKED_IP", resource |-> "security", ipAddress |-> "ip1",
      userId |-> NoUser]}

RetentionDays == 1..(MaxDays - 1)

NextAudit ==
    \/ \E d \in AuditInputs, do \in BOOLEAN : AuditRecord(d, do)
    \/ \E k \in RetentionDays, do \in BOOLEAN : CleanOldLogs(k, do)
    \/ TickBy(DayMs, MaxDays * DayMs)

SpecAudit == InitPipe /\ [][NextAudit]_vars

(***************************************************************************)
(* The error middleware: an error handed to next(error) by a middleware or *)
(* thrown by a handler is answered by errorHandler.                        *)
(***************************************************************************)
\* The values of process.env.NODE_ENV (absent included).
NodeEnvs == {"production", "development", "test", "undefined"}

\* Errors that reach errorHandler.
Errors ==
    {AppError(m, c) : m \in {"Invalid credentials", "Invalid token",
                             "Invalid input detected", "Login failed"},
                     c \in {400, 401, 403, 404, 500}}
    \cup {defaultHandler}
    \cup {PlainError(m) : m \in {"database unavailable",
                                 "connect ECONNREFUSED 10.0.0.5:5432",
                                 "Cannot read properties of undefined"}}
    \cup {JwtError(c, m) : c \in {"JsonWebTokenError", "TokenExpiredError"},
                          m \in {"jwt malformed", "jwt expired"}}

ErrorHandler(err, nodeEnv) ==
    /\ lastOp = NoOp
    /\ lastOp' = [NoOp EXCEPT !.op = "errorHandler", !.err = err,
                              !.nodeEnv = nodeEnv,
                              !.status = errorHandler(err).status,
                              !.body = errorBody(err, nodeEnv)]
    /\ UNCHANGED <<users, tokClock, issued>>
    /\ UNCHANGED pipeVars
    /\ UNCHANGED svcVars

NextErr ==
    \/ \E e \in Errors, env \in NodeEnvs : ErrorHandler(e, env)
    \/ Return

SpecErr == InitTok /\ [][NextErr]_vars

(***************************************************************************)
(* A content-bearing route: limiter, malicious-pattern screen, handler.    *)
(***************************************************************************)
\* The payloads that arrive.
Inputs ==
    {[NoInput EXCEPT !.body = Obj(<<Str(<<"hello", "world">>), Num>>)],
     [NoInput EXCEPT !.body = Obj(<<Str(<<"selection">>),
                                    Str(<<"x", ";", "drop">>)>>)],
     [NoInput EXCEPT !.body = Obj(<<Obj(<<Str(<<"a", "or", "1", "=", "1",
                                                "and">>)>>)>>)],
     [NoInput EXCEPT !.query = Obj(<<Str(<<"<Script>", "x", "</script>">>)>>)],
     [NoInput EXCEPT !.params = Obj(<<Str(<<"img", "OnClick=">>)>>)]}

ContentRoute(ip, input, redisOk, dbOk) ==
    /\ Len(reqs) < MaxPipeReq
    /\ LET r == [NewReq(ip, "content", NoToken) EXCEPT !.stage = "limit",
                                                      !.input = input]
       IN RateLimitOn(Len(reqs) + 1, r, Append(reqs, r), redisOk, dbOk)

\* checkMaliciousPatterns for request i; a rejection is answered by
\* errorHandler.
Screen(i, redisOk) ==
    /\ reqs[i].stage = "screen"
    /\ LET res == checkMaliciousPatterns(reqs[i].input)
       IN /\ IF res.nextErr = NoErr
             THEN /\ reqs' = [reqs EXCEPT ![i].stage = AfterScreen]
                  /\ last' = [NoStep EXCEPT !.step = "screen", !.id = i,
                                            !.ip = reqs[i].ip,
                                            !.nextCalls = res.nextCalls]
                  /\ UNCHANGED <<zset, zexp>>
             ELSE ResEndAt("screen", i, errorHandler(res.nextErr).status,
                           redisOk)
    /\ UNCHANGED <<now, config, blocked, nblock, auditLog, hist>>
    /\ UNCHANGED tokVars
    /\ UNCHANGED svcVars

NextScreen ==
    \/ \E ip \in RouteIPs, x \in Inputs, ro \in BOOLEAN :
          ContentRoute(ip, x, ro, TRUE)
    \/ \E i \in 1..Len(reqs) : Screen(i, TRUE)
    \/ \E i \in 1..Len(reqs), st \in HandlerStatuses : Handler(i, st, TRUE)
    \/ Tick

SpecScreen == InitPipe /\ [][NextScreen]_vars

(***************************************************************************)
(* Refresh tokens over the life of an account: pairs are issued and        *)
(* rotated, and the password is changed or reset in between.               *)
(***************************************************************************)
\* refreshToken(token) by a client that kept a refresh token it was given;
\* the uses that succeeded are remembered.
Rotate(token, dbOk) ==
    /\ RefreshCall(token, dbOk)
    /\ rotated' = IF lastOp'.ok
                  THEN rotated \cup {[token |-> token, at |-> tokClock]}
                  ELSE rotated
    /\ UNCHANGED <<accounts, changedAt, lastBlock>>
    /\ UNCHANGED bookVars

\* The outcome of a password operation of the account service.
PasswordOp(op, res, userId, password) ==
    /\ accounts' = res.accounts
    /\ changedAt' = IF res.err = NoErr /\ userId # NoUser
                       /\ res.accounts # accounts
                    THEN [changedAt EXCEPT ![userId] = tokClock]
                    ELSE changedAt
    /\ auditLog' = IF res.audit = NoAudit THEN auditLog
                   ELSE AuditLog(auditLog, res.audit, TRUE, now)
    /\ lastOp' = [NoOp EXCEPT !.op = op, !.at = tokClock,
                              !.ok = (res.err = NoErr), !.user = userId,
                              !.password = password, !.err = res.err]
    /\ UNCHANGED <<now, config, zset, zexp, blocked, nblock, reqs, hist,
                   last>>
    /\ UNCHANGED <<users, tokClock, issued, rotated, lastBlock>>
    /\ UNCHANGED bookVars

ChangePassword(userId, currentPassword, newPassword, dbOk) ==
    /\ lastOp = NoOp
    /\ Len(auditLog) < MaxAuditLen
    /\ PasswordOp("changePassword",
                  changePassword(userId, currentPassword, newPassword,
                                 users, accounts, dbOk),
                  userId, newPassword)

RequestPasswordReset(email, uuid, dbOk) ==
    /\ lastOp = NoOp
    /\ Len(auditLog) < MaxAuditLen
    /\ PasswordOp("requestPasswordReset",
                  requestPasswordReset(email, uuid, users, accounts, dbOk),
                  NoUser, NoPassword)

ResetPassword(token, newPassword, dbOk) ==
    /\ lastOp = NoOp
    /\ Len(auditLog) < MaxAuditLen
    /\ LET res == resetPassword(token, newPassword, users, accounts, dbOk)
       IN PasswordOp("resetPassword", res, res.user, newPassword)

\* The refresh tokens a client can hold: those of the latest pair and
\* those it used before.
HeldTokens ==
    {r.token : r \in rotated}
    \cup (IF issued = NoPair THEN {}
          ELSE {issued.refreshToken, issued.accessToken})

Passwords == {StrongPassword, OtherStrongPassword, WeakPassword}

ResetTokens == {"uuid-1", "uuid-2"}

NextRevoke ==
    \/ TokTick
    \/ Return
    \/ \E u \in UserIds : IssueTokens(u)
    \/ \E t \in HeldTokens, do \in BOOLEAN : Rotate(t, do)
    \/ \E u \in UserIds, cur \in Passwords, new \in Passwords,
          do \in BOOLEAN : ChangePassword(u, cur, new, do)
    \/ \E u \in UserIds, id \in ResetTokens, do \in BOOLEAN :
          RequestPasswordReset(EmailOf(u), id, do)
    \/ \E id \in ResetTokens, new \in Passwords, do \in BOOLEAN :
          ResetPassword(id, new, do)

SpecRevoke == InitTok /\ [][NextRevoke]_vars

(***************************************************************************)
(* Password reset as the steps of its calls: requestPasswordReset writes   *)
(* the token in one update; resetPassword reads the user by token, hashes  *)
(* the password and then updates the row, and calls can interleave between *)
(* these awaited operations.                                               *)
(***************************************************************************)
\* The uuids requestPasswordReset has drawn so far.
DrawnTokens ==
    {calls[c].token : c \in {d \in 1..Len(calls) :
                                calls[d].op = "requestPasswordReset"}}

\* requestPasswordReset(email) with a new uuid.
RequestReset(email, uuid) ==
    /\ Len(calls) < MaxCalls
    /\ uuid \notin DrawnTokens
    /\ LET res == requestPasswordReset(email, uuid, users, accounts, TRUE)
       IN /\ accounts' = res.accounts
          /\ auditLog' = IF res.audit = NoAudit THEN auditLog
                         ELSE AuditLog(auditLog, res.audit, TRUE, now)
          /\ calls' = Append(calls,
                         [NoCall EXCEPT !.op = "requestPasswordReset",
                                        !.token = uuid, !.ok = TRUE])
    /\ UNCHANGED <<now, config, zset, zexp, blocked, nblock, reqs, hist,
                   last>>
    /\ UNCHANGED tokVars
    /\ UNCHANGED <<changedAt, rotated, lastBlock, browser, books, cache,
                   subscriptions>>

\* resetPassword(token, newPassword) up to its first await: the strength
\* check.
ResetBegin(token, newPassword) ==
    /\ Len(calls) < MaxCalls
    /\ calls' = Append(calls,
                   IF isStrong(newPassword)
                   THEN [NoCall EXCEPT !.op = "resetPassword",
                                       !.pc = "findFirst", !.token = token,
                                       !.password = newPassword]
                   ELSE [NoCall EXCEPT !.op = "resetPassword",
                                       !.token = token,
                                       !.password = newPassword,
                                       !.err = AppError("Password is not strong enough", 400)])
    /\ UNCHANGED pipeVars
    /\ UNCHANGED tokVars
    /\ UNCHANGED <<accounts, changedAt, rotated, lastBlock, browser, books, cache,
                   subscriptions>>

\* prisma.user.findFirst({where: {passwordResetToken: token}})
ResetFindFirst(c, dbOk) ==
    /\ calls[c].op = "resetPassword" /\ calls[c].pc = "findFirst"
    /\ LET found == FindByResetToken(users, accounts, calls[c].token)
       IN calls' = [calls EXCEPT ![c] =
                      IF ~dbOk
                      THEN [@ EXCEPT !.pc = "done",
                                     !.err = AppError("Password reset failed", 500)]
                      ELSE IF found = NoUser
                      THEN [@ EXCEPT !.pc = "done",
                                     !.err = AppError("Invalid reset token", 400)]
                      ELSE [@ EXCEPT !.pc = "update", !.user = found]]
    /\ UNCHANGED pipeVars
    /\ UNCHANGED tokVars
    /\ UNCHANGED <<accounts, changedAt, rotated, lastBlock, browser, books, cache,
                   subscriptions>>

\* bcrypt.hash, then prisma.user.update({where: {id: user.id}, data:
\* {password, passwordResetToken: null}}), the audit event and the return.
ResetUpdate(c, dbOk) ==
    /\ calls[c].op = "resetPassword" /\ calls[c].pc = "update"
    /\ IF dbOk
       THEN /\ accounts' = [accounts EXCEPT
                              ![calls[c].user].password =
                                  bcryptHash(calls[c].password),
                              ![calls[c].user].passwordResetToken =
                                  NoResetToken]
            /\ auditLog' = AuditLog(auditLog,
                                    logAuth(calls[c].user, "PASSWORD_RESET", ""),
                                    TRUE, now)
            /\ calls' = [calls EXCEPT ![c] =
                           [@ EXCEPT !.pc = "done", !.ok = TRUE]]
       ELSE /\ calls' = [calls EXCEPT ![c] =
                           [@ EXCEPT !.pc = "done",
                                     !.err = AppError("Password reset failed", 500)]]
            /\ UNCHANGED <<accounts, auditLog>>
    /\ UNCHANGED <<now, config, zset, zexp, blocked, nblock, reqs, hist,
                   last>>
    /\ UNCHANGED tokVars
    /\ UNCHANGED <<changedAt, rotated, lastBlock, browser, books, cache,
                   subscriptions>>

NextReset ==
    \/ \E u \in UserIds, id \in ResetTokens : RequestReset(EmailOf(u), id)
    \/ \E id \in ResetTokens,
          new \in {StrongPassword, OtherStrongPassword, WeakPassword} :
          ResetBegin(id, new)
    \/ \E c \in 1..Len(calls), do \in BOOLEAN : ResetFindFirst(c, do)
    \/ \E c \in 1..Len(calls), do \in BOOLEAN : ResetUpdate(c, do)

SpecReset == InitTok /\ [][NextReset]_vars

(***************************************************************************)
(* createBook as the steps of its calls: the limit check, the insert of    *)
(* the book and the increment of the counter are three awaited database    *)
(* operations.                                                             *)
(***************************************************************************)
\* createBook(userId, data) is called.
CreateBook(userId) ==
    /\ Len(calls) < MaxCreates
    /\ calls' = Append(calls, [NoCall EXCEPT !.op = "createBook",
                                             !.pc = "checkSubscriptionLimits",
                                             !.caller = userId])
    /\ UNCHANGED pipeVars
    /\ UNCHANGED tokVars
    /\ UNCHANGED <<accounts, changedAt, rotated, lastBlock, browser, books, cache,
                   subscriptions>>

\* checkSubscriptionLimits: reads the subscription and compares.
CheckSubscriptionLimits(c, dbOk) ==
    /\ calls[c].op = "createBook"
    /\ calls[c].pc = "checkSubscriptionLimits"
    /\ LET subscription == subscriptions[calls[c].caller]
       IN calls' = [calls EXCEPT ![c] =
            IF ~dbOk
            THEN [@ EXCEPT !.pc = "done",
                           !.err = AppError("Failed to create book", 500)]
            ELSE IF calls[c].caller \notin users
            THEN [@ EXCEPT !.pc = "done",
                           !.err = AppError("No subscription found", 400)]
            ELSE IF /\ subscription.tier = "FREE"
                    /\ subscription.booksCreatedThisMonth >=
                           subscription.monthlyBookLimit
            THEN [@ EXCEPT !.pc = "done",
                           !.err = AppError("Monthly book limit reached. Please upgrade to create more books.", 403)]
            ELSE [@ EXCEPT !.pc = "create"]]
    /\ UNCHANGED pipeVars
    /\ UNCHANGED tokVars
    /\ UNCHANGED <<accounts, changedAt, rotated, lastBlock, browser, books, cache,
                   subscriptions>>

\* The id the database gives the next row.
NextBookId ==
    CHOOSE n \in 1..(Cardinality(DOMAIN books) + 1) :
        n \notin DOMAIN books \/ ~books[n].exists

\* prisma.book.create: a DRAFT book of the caller.
BookCreate(c, dbOk) ==
    /\ calls[c].op = "createBook" /\ calls[c].pc = "create"
    /\ IF dbOk
       THEN LET row == Book(NextBookId, calls[c].caller, FALSE, "DRAFT",
                            "PENDING")
            IN /\ books' = [b \in DOMAIN books \cup {row.id} |->
                              IF b = row.id THEN row ELSE books[b]]
               /\ calls' = [calls EXCEPT ![c] =
                              [@ EXCEPT !.pc = "incrementBookCounter",
                                        !.bookId = row.id, !.result = row]]
       ELSE /\ calls' = [calls EXCEPT ![c] =
                           [@ EXCEPT !.pc = "done",
                                     !.err = AppError("Failed to create book", 500)]]
            /\ UNCHANGED books
    /\ UNCHANGED pipeVars
    /\ UNCHANGED tokVars
    /\ UNCHANGED <<accounts, changedAt, rotated, lastBlock, browser, cache,
                   subscriptions>>

\* incrementBookCounter: an atomic increment of the counter, then the
\* book is returned.
IncrementBookCounter(c, dbOk) ==
    /\ calls[c].op = "createBook" /\ calls[c].pc = "incrementBookCounter"
    /\ IF dbOk
       THEN /\ subscriptions' =
                 [subscriptions EXCEPT
                    ![calls[c].caller].booksCreatedThisMonth = @ + 1]
            /\ calls' = [calls EXCEPT ![c] =
                           [@ EXCEPT !.pc = "done", !.ok = TRUE]]
       ELSE /\ calls' = [calls EXCEPT ![c] =
                           [@ EXCEPT !.pc = "done",
                                     !.err = AppError("Failed to create book", 500)]]
            /\ UNCHANGED subscriptions
    /\ UNCHANGED pipeVars
    /\ UNCHANGED tokVars
    /\ UNCHANGED <<accounts, changedAt, rotated, lastBlock, browser, books, cache>>

NextQuota ==
    \/ \E u \in UserIds : CreateBook(u)
    \/ \E c \in 1..Len(calls), do \in BOOLEAN :
          CheckSubscriptionLimits(c, do)
    \/ \E c \in 1..Len(calls), do \in BOOLEAN : BookCreate(c, do)
    \/ \E c \in 1..Len(calls), do \in BOOLEAN : IncrementBookCounter(c, do)

SpecQuota == InitTok /\ [][NextQuota]_vars

(***************************************************************************)
(* BookService.getBook, publishBook and deleteBook, one step per awaited   *)
(* cache or database operation, so that calls interleave as the event loop *)
(* lets them.                                                              *)
(***************************************************************************)
\* The ttl getBook gives cacheSet, in seconds.
BookCacheTtl == 3600

\* The book table at the start: a completed private book of u1, approved
\* or not; id 2 has no row.
Libraries ==
    {[b \in BookIds |->
        IF b = 1 THEN Book(1, "u1", FALSE, "COMPLETED", m) ELSE NoBook] :
     m \in {"APPROVED", "PENDING"}}

InitBooks == \E lib \in Libraries : StartWith(PipeConfig, UserIds, lib)

\* redisClient.get inside cacheGet: null for a missing or expired key and
\* when Redis fails (the error is logged and null returned).
cacheGet(b, redisOk) ==
    IF redisOk /\ now < cache[b].exp THEN cache[b].value ELSE <<>>

\* redisClient.setEx inside cacheSet; an error is logged and swallowed.
cacheSet(b, text, ttl, redisOk) ==
    IF redisOk
    THEN [cache EXCEPT ![b] = [value |-> text, exp |-> now + ttl * 1000]]
    ELSE cache

\* redisClient.del inside cacheDel; an error is logged and swallowed.
cacheDel(b, redisOk) ==
    IF redisOk THEN [cache EXCEPT ![b] = NoEntry] ELSE cache

\* A deleteBook call of book b has completed.
Deleted(b) ==
    \E d \in 1..Len(calls) :
        /\ calls[d].op = "deleteBook" /\ calls[d].bookId = b
        /\ calls[d].pc = "done" /\ calls[d].ok

\* A new call of operation op, at its first awaited operation.
BeginCall(op, pc, bookId, userId) ==
    [NoCall EXCEPT !.op = op, !.pc = pc, !.caller = userId,
                   !.bookId = bookId, !.afterDelete = Deleted(bookId)]

\* The call c fails with err.
Throw(c, err) == [calls EXCEPT ![c] = [@ EXCEPT !.pc = "done", !.err = err]]

\* The call c returns.
Resolve(c) == [calls EXCEPT ![c] = [@ EXCEPT !.pc = "done", !.ok = TRUE]]

\* router.get('/:id', optionalAuth, ...): userId is undefined for an
\* anonymous caller.
GetBook(bookId, userId) ==
    /\ Len(calls) < MaxBookCalls
    /\ calls' = Append(calls,
                       BeginCall("getBook", "cacheGet", bookId, userId))
    /\ UNCHANGED pipeVars
    /\ UNCHANGED tokVars
    /\ UNCHANGED <<accounts, changedAt, rotated, lastBlock, browser, books, cache,
                   subscriptions>>

\* getBook: cacheGet, and on a hit the parsed book is what is returned.
GetBookCacheGet(c, redisOk) ==
    /\ calls[c].op = "getBook" /\ calls[c].pc = "cacheGet"
    /\ LET cached == cacheGet(calls[c].bookId, redisOk)
       IN calls' = [calls EXCEPT ![c] =
            IF Len(cached) > 0
            THEN IF calls[c].caller # NoUser
                 THEN [@ EXCEPT !.pc = "recordView",
                                !.result = JSONParse(cached)]
                 ELSE [@ EXCEPT !.pc = "done", !.ok = TRUE,
                                !.result = JSONParse(cached)]
            ELSE [@ EXCEPT !.pc = "findUnique"]]
    /\ UNCHANGED pipeVars
    /\ UNCHANGED tokVars
    /\ UNCHANGED <<accounts, changedAt, rotated, lastBlock, browser, books, cache,
                   subscriptions>>

\* getBook on a miss: findUnique and the access check.
GetBookFindUnique(c, dbOk) ==
    /\ calls[c].op = "getBook" /\ calls[c].pc = "findUnique"
    /\ LET book == books[calls[c].bookId]
       IN calls' =
            IF ~dbOk THEN Throw(c, AppError("Failed to get book", 500))
            ELSE IF ~book.exists
            THEN Throw(c, AppError("Book not found", 404))
            ELSE IF ~book.isPublic /\ book.authorId # calls[c].caller
            THEN Throw(c, AppError("Access denied", 403))
            ELSE [calls EXCEPT ![c] = [@ EXCEPT !.pc = "cacheSet",
                                                !.book = book]]
    /\ UNCHANGED pipeVars
    /\ UNCHANGED tokVars
    /\ UNCHANGED <<accounts, changedAt, rotated, lastBlock, browser, books, cache,
                   subscriptions>>

\* getBook on a miss: the row read is cached for an hour and returned.
GetBookCacheSet(c, redisOk) ==
    /\ calls[c].op = "getBook" /\ calls[c].pc = "cacheSet"
    /\ cache' = cacheSet(calls[c].bookId, JSONStringify(calls[c].book),
                         BookCacheTtl, redisOk)
    /\ calls' = [calls EXCEPT ![c] =
                   IF calls[c].caller # NoUser
                   THEN [@ EXCEPT !.pc = "recordView",
                                  !.result = calls[c].book]
                   ELSE [@ EXCEPT !.pc = "done", !.ok = TRUE,
                                  !.result = calls[c].book]]
    /\ UNCHANGED pipeVars
    /\ UNCHANGED tokVars
    /\ UNCHANGED <<accounts, changedAt, rotated, lastBlock, browser, books,
                   subscriptions>>

\* recordView: a view row and viewCount + 1; every error is swallowed
\* (the insert fails for a book that has no row).  The view rows are read
\* by no operation here and are not kept.
RecordView(c, dbOk) ==
    /\ calls[c].op = "getBook" /\ calls[c].pc = "recordView"
    /\ books' = IF dbOk /\ books[calls[c].bookId].exists
                THEN [books EXCEPT ![calls[c].bookId].viewCount = @ + 1]
                ELSE books
    /\ calls' = Resolve(c)
    /\ UNCHANGED pipeVars
    /\ UNCHANGED tokVars
    /\ UNCHANGED <<accounts, changedAt, rotated, lastBlock, browser, cache,
                   subscriptions>>

\* The checks publishBook and deleteBook make on the row they read.
OwnedBy(book, userId) ==
    IF ~book.exists THEN AppError("Book not found", 404)
    ELSE IF book.authorId # userId THEN AppError("Unauthorized", 403)
    ELSE NoErr

PublishBook(bookId, userId) ==
    /\ Len(calls) < MaxBookCalls
    /\ calls' = Append(calls,
                       BeginCall("publishBook", "findUnique", bookId, userId))
    /\ UNCHANGED pipeVars
    /\ UNCHANGED tokVars
    /\ UNCHANGED <<accounts, changedAt, rotated, lastBlock, browser, books, cache,
                   subscriptions>>

PublishFindUnique(c, dbOk) ==
    /\ calls[c].op = "publishBook" /\ calls[c].pc = "findUnique"
    /\ LET book == books[calls[c].bookId]
           denied == OwnedBy(book, calls[c].caller)
       IN calls' =
            IF ~dbOk THEN Throw(c, AppError("Failed to publish book", 500))
            ELSE IF denied # NoErr THEN Throw(c, denied)
            ELSE IF book.moderationStatus # "APPROVED"
            THEN Throw(c, AppError("Book must be approved before publishing", 400))
            ELSE [calls EXCEPT ![c] = [@ EXCEPT !.pc = "update",
                                                !.book = book]]
    /\ UNCHANGED pipeVars
    /\ UNCHANGED tokVars
    /\ UNCHANGED <<accounts, changedAt, rotated, lastBlock, browser, books, cache,
                   subscriptions>>

\* prisma.book.update of isPublic; it throws for a row that is gone.
PublishUpdate(c, dbOk) ==
    /\ calls[c].op = "publishBook" /\ calls[c].pc = "update"
    /\ IF dbOk /\ books[calls[c].bookId].exists
       THEN /\ books' = [books EXCEPT ![calls[c].bookId].isPublic = TRUE]
            /\ calls' = [calls EXCEPT ![c] =
                           [@ EXCEPT !.pc = "cacheDel",
                                     !.result = books'[calls[c].bookId]]]
       ELSE /\ calls' = Throw(c, AppError("Failed to publish book", 500))
            /\ UNCHANGED books
    /\ UNCHANGED pipeVars
    /\ UNCHANGED tokVars
    /\ UNCHANGED <<accounts, changedAt, rotated, lastBlock, browser, cache,
                   subscriptions>>

\* The cacheDel that ends publishBook and deleteBook.
ClearCache(c, redisOk) ==
    /\ calls[c].op \in {"publishBook", "deleteBook"}
    /\ calls[c].pc = "cacheDel"
    /\ cache' = cacheDel(calls[c].bookId, redisOk)
    /\ calls' = Resolve(c)
    /\ UNCHANGED pipeVars
    /\ UNCHANGED tokVars
    /\ UNCHANGED <<accounts, changedAt, rotated, lastBlock, browser, books,
                   subscriptions>>

DeleteBook(bookId, userId) ==
    /\ Len(calls) < MaxBookCalls
    /\ calls' = Append(calls,
                       BeginCall("deleteBook", "findUnique", bookId, userId))
    /\ UNCHANGED pipeVars
    /\ UNCHANGED tokVars
    /\ UNCHANGED <<accounts, changedAt, rotated, lastBlock, browser, books, cache,
                   subscriptions>>

DeleteFindUnique(c, dbOk) ==
    /\ calls[c].op = "deleteBook" /\ calls[c].pc = "findUnique"
    /\ LET book == books[calls[c].bookId]
           denied == OwnedBy(book, calls[c].caller)
       IN calls' =
            IF ~dbOk THEN Throw(c, AppError("Failed to delete book", 500))
            ELSE IF denied # NoErr THEN Throw(c, denied)
            ELSE [calls EXCEPT ![c] = [@ EXCEPT !.pc = "delete",
                                                !.book = book]]
    /\ UNCHANGED pipeVars
    /\ UNCHANGED tokVars
    /\ UNCHANGED <<accounts, changedAt, rotated, lastBlock, browser, books, cache,
                   subscriptions>>

\* prisma.book.delete; it throws for a row that is gone.
DeleteDelete(c, dbOk) ==
    /\ calls[c].op = "deleteBook" /\ calls[c].pc = "delete"
    /\ IF dbOk /\ books[calls[c].bookId].exists
       THEN /\ books' = [books EXCEPT ![calls[c].bookId] = NoBook]
            /\ calls' = [calls EXCEPT ![c] = [@ EXCEPT !.pc = "cacheDel"]]
       ELSE /\ calls' = Throw(c, AppError("Failed to delete book", 500))
            /\ UNCHANGED books
    /\ UNCHANGED pipeVars
    /\ UNCHANGED tokVars
    /\ UNCHANGED <<accounts, changedAt, rotated, lastBlock, browser, cache,
                   subscriptions>>

\* An hour passes; a cache entry is gone once its ttl has run out.
CacheTick == TickBy(CacheTickMs, MaxCacheTicks * CacheTickMs)

NextBooks ==
    \/ \E b \in BookIds, u \in UserIds \cup {NoUser} : GetBook(b, u)
    \/ \E c \in 1..Len(calls), ro \in BOOLEAN : GetBookCacheGet(c, ro)
    \/ \E c \in 1..Len(calls), do \in BOOLEAN : GetBookFindUnique(c, do)
    \/ \E c \in 1..Len(calls), ro \in BOOLEAN : GetBookCacheSet(c, ro)
    \/ \E c \in 1..Len(calls), do \in BOOLEAN : RecordView(c, do)
    \/ \E b \in BookIds, u \in UserIds : PublishBook(b, u)
    \/ \E c \in 1..Len(calls), do \in BOOLEAN : PublishFindUnique(c, do)
    \/ \E c \in 1..Len(calls), do \in BOOLEAN : PublishUpdate(c, do)
    \/ \E b \in BookIds, u \in UserIds : DeleteBook(b, u)
    \/ \E c \in 1..Len(calls), do \in BOOLEAN : DeleteFindUnique(c, do)
    \/ \E c \in 1..Len(calls), do \in BOOLEAN : DeleteDelete(c, do)
    \/ \E c \in 1..Len(calls), ro \in BOOLEAN : ClearCache(c, ro)
    \/ CacheTick

SpecBooks == InitBooks /\ [][NextBooks]_vars

(***************************************************************************)
(* BookService.generateStoryContent, one step per awaited operation.  An   *)
(* error thrown inside the try block is kept in err while the call is at   *)
(* pc "catch".  The page rows the run creates are read by no operation     *)
(* here and are not kept.                                                  *)
(***************************************************************************)
\* The book table at the start: a draft of u1 that has not been generated,
\* or a completed and approved book of u1; id 2 has no row.
GenLibraries ==
    {[b \in BookIds |-> IF b = 1 THEN row ELSE NoBook] :
     row \in {Book(1, "u1", FALSE, "DRAFT", "PENDING"),
              Book(1, "u1", FALSE, "COMPLETED", "APPROVED")}}

InitGen == \E lib \in GenLibraries : StartWith(PipeConfig, UserIds, lib)

\* An error is thrown inside the try block of call c.
Caught(c, err) == [calls EXCEPT ![c] = [@ EXCEPT !.pc = "catch", !.err = err]]

\* router.post('/:id/generate-story', authenticate, ...).
GenerateStoryContent(bookId, userId) ==
    /\ Len(calls) < MaxGenCalls
    /\ calls' = Append(calls,
                       [NoCall EXCEPT !.op = "generateStoryContent",
                                      !.pc = "findUnique",
                                      !.caller = userId, !.bookId = bookId])
    /\ UNCHANGED pipeVars
    /\ UNCHANGED tokVars
    /\ UNCHANGED <<accounts, changedAt, rotated, lastBlock, browser, books, cache,
                   subscriptions>>

\* findUnique and the two checks.
GenFindUnique(c, dbOk) ==
    /\ calls[c].op = "generateStoryContent" /\ calls[c].pc = "findUnique"
    /\ LET book == books[calls[c].bookId]
       IN calls' =
            IF ~dbOk THEN Caught(c, PlainError("database unavailable"))
            ELSE IF ~book.exists
            THEN Caught(c, AppError("Book not found", 404))
            ELSE IF book.authorId # calls[c].caller
            THEN Caught(c, AppError("Unauthorized", 403))
            ELSE [calls EXCEPT ![c] = [@ EXCEPT !.pc = "updateGenerating",
                                                !.book = book]]
    /\ UNCHANGED pipeVars
    /\ UNCHANGED tokVars
    /\ UNCHANGED <<accounts, changedAt, rotated, lastBlock, browser, books, cache,
                   subscriptions>>

\* prisma.book.update with status 'GENERATING'.
GenUpdateGenerating(c, dbOk) ==
    /\ calls[c].op = "generateStoryContent"
    /\ calls[c].pc = "updateGenerating"
    /\ IF dbOk /\ books[calls[c].bookId].exists
       THEN /\ books' = [books EXCEPT
                           ![calls[c].bookId].status = "GENERATING"]
            /\ calls' = [calls EXCEPT ![c] =
                           [@ EXCEPT !.pc = "generateStory"]]
       ELSE /\ calls' = Caught(c, PlainError("database unavailable"))
            /\ UNCHANGED books
    /\ UNCHANGED pipeVars
    /\ UNCHANGED tokVars
    /\ UNCHANGED <<accounts, changedAt, rotated, lastBlock, browser, cache,
                   subscriptions>>

\* AIService.generateStory and the page rows: they resolve or throw.
GenGenerateStory(c, aiOk) ==
    /\ calls[c].op = "generateStoryContent" /\ calls[c].pc = "generateStory"
    /\ calls' = IF aiOk
                THEN [calls EXCEPT ![c] = [@ EXCEPT !.pc = "updateCompleted"]]
                ELSE Caught(c, PlainError("story generation failed"))
    /\ UNCHANGED pipeVars
    /\ UNCHANGED tokVars
    /\ UNCHANGED <<accounts, changedAt, rotated, lastBlock, browser, books, cache,
                   subscriptions>>

\* prisma.book.update with status 'COMPLETED' and moderationStatus
\* 'APPROVED'; the updated book is returned.
GenUpdateCompleted(c, dbOk) ==
    /\ calls[c].op = "generateStoryContent"
    /\ calls[c].pc = "updateCompleted"
    /\ IF dbOk /\ books[calls[c].bookId].exists
       THEN /\ books' = [books EXCEPT
                           ![calls[c].bookId].status = "COMPLETED",
                           ![calls[c].bookId].moderationStatus = "APPROVED"]
            /\ calls' = [calls EXCEPT ![c] =
                           [@ EXCEPT !.pc = "done", !.ok = TRUE,
                                     !.result = books'[calls[c].bookId]]]
       ELSE /\ calls' = Caught(c, PlainError("database unavailable"))
            /\ UNCHANGED books
    /\ UNCHANGED pipeVars
    /\ UNCHANGED tokVars
    /\ UNCHANGED <<accounts, changedAt, rotated, lastBlock, browser, cache,
                   subscriptions>>

\* The error a catch block of the service rethrows.
Rethrow(error, message) ==
    IF InstanceOf(error, "AppError") THEN error ELSE AppError(message, 500)

\* The catch block: prisma.book.update with status 'FAILED' for whatever
\* was thrown, then the rethrow.  When the update itself throws (no such
\* row, database down), its error leaves the function.
GenCatch(c, dbOk) ==
    /\ calls[c].op = "generateStoryContent" /\ calls[c].pc = "catch"
    /\ IF dbOk /\ books[calls[c].bookId].exists
       THEN /\ books' = [books EXCEPT ![calls[c].bookId].status = "FAILED"]
            /\ calls' = Throw(c, Rethrow(calls[c].err,
                                         "Failed to generate story"))
       ELSE /\ calls' = Throw(c, PlainError("database unavailable"))
            /\ UNCHANGED books
    /\ UNCHANGED pipeVars
    /\ UNCHANGED tokVars
    /\ UNCHANGED <<accounts, changedAt, rotated, lastBlock, browser, cache,
                   subscriptions>>

NextGen ==
    \/ \E b \in BookIds, u \in UserIds : GenerateStoryContent(b, u)
    \/ \E c \in 1..Len(calls), do \in BOOLEAN : GenFindUnique(c, do)
    \/ \E c \in 1..Len(calls), do \in BOOLEAN : GenUpdateGenerating(c, do)
    \/ \E c \in 1..Len(calls), ao \in BOOLEAN : GenGenerateStory(c, ao)
    \/ \E c \in 1..Len(calls), do \in BOOLEAN : GenUpdateCompleted(c, do)
    \/ \E c \in 1..Len(calls), do \in BOOLEAN : GenCatch(c, do)

SpecGen == InitGen /\ [][NextGen]_vars

(***************************************************************************)
(* The frontend API client: the axios instance api with its response       *)
(* interceptor.  A request is a call record: retry is the _retry flag of   *)
(* its config, sent the refresh token posted to /api/auth/refresh;         *)
(* refreshes and replays count what the interceptor did for it.  The       *)
(* server's answers are arbitrary.                                         *)
(***************************************************************************)
\* The answers to a request: a 2xx response, an error response with a
\* status, or no response at all (status 0).
Answers == {200, 401, 403, 500, 0}

\* The register page stores the tokens and the user it was given.
StoreSession ==
    /\ browser' = [browser EXCEPT !.accessToken = 1, !.refreshToken = 1,
                                  !.user = TRUE]
    /\ UNCHANGED calls
    /\ UNCHANGED pipeVars
    /\ UNCHANGED tokVars
    /\ UNCHANGED <<accounts, changedAt, rotated, lastBlock, books, cache,
                   subscriptions>>

\* authAPI.logout.
Logout ==
    /\ browser' = [browser EXCEPT !.accessToken = 0, !.refreshToken = 0,
                                  !.user = FALSE]
    /\ UNCHANGED calls
    /\ UNCHANGED pipeVars
    /\ UNCHANGED tokVars
    /\ UNCHANGED <<accounts, changedAt, rotated, lastBlock, books, cache,
                   subscriptions>>

\* api(config): a request leaves.
ApiRequest ==
    /\ Len(calls) < MaxClientReq
    /\ calls' = Append(calls, [NoCall EXCEPT !.op = "request",
                                             !.pc = "awaiting"])
    /\ UNCHANGED browser
    /\ UNCHANGED pipeVars
    /\ UNCHANGED tokVars
    /\ UNCHANGED <<accounts, changedAt, rotated, lastBlock, books, cache,
                   subscriptions>>

\* The condition under which the interceptor tries a refresh.
ShouldRefreshAlways(status, retry) == status = 401

ShouldRefresh(status, retry) == status = 401 /\ ~retry

\* The answer to a request arrives.  A response is handed to the caller;
\* an error goes through the interceptor, which posts the refresh token
\* when there is one.
Answer(c, status) ==
    /\ calls[c].op = "request" /\ calls[c].pc = "awaiting"
    /\ calls[c].refreshes <= MaxRefresh
    /\ calls' = [calls EXCEPT ![c] =
         IF status = 200
         THEN [@ EXCEPT !.pc = "done", !.ok = TRUE, !.status = status]
         ELSE IF ShouldRefresh(status, calls[c].retry)
         THEN IF browser.refreshToken # 0
              THEN [@ EXCEPT !.retry = TRUE, !.pc = "refreshing",
                             !.sent = browser.refreshToken,
                             !.refreshes = @ + 1]
              ELSE [@ EXCEPT !.retry = TRUE, !.pc = "done",
                             !.status = status]
         ELSE [@ EXCEPT !.pc = "done", !.status = status]]
    /\ UNCHANGED browser
    /\ UNCHANGED pipeVars
    /\ UNCHANGED tokVars
    /\ UNCHANGED <<accounts, changedAt, rotated, lastBlock, books, cache,
                   subscriptions>>

\* The answer to axios.post(/api/auth/refresh) arrives.  On success the new
\* pair is stored and the request is replayed through api; on failure the
\* session is removed, the page goes to /login and the refresh error is
\* the request's error.
RefreshAnswer(c, status) ==
    /\ calls[c].op = "request" /\ calls[c].pc = "refreshing"
    /\ IF status = 200
       THEN /\ browser' = [browser EXCEPT
                             !.accessToken = calls[c].sent + 1,
                             !.refreshToken = calls[c].sent + 1]
            /\ calls' = [calls EXCEPT ![c] =
                           [@ EXCEPT !.pc = "awaiting", !.replays = @ + 1]]
       ELSE /\ browser' = [browser EXCEPT !.accessToken = 0,
                                          !.refreshToken = 0,
                                          !.user = FALSE,
                                          !.location = "/login"]
            /\ calls' = [calls EXCEPT ![c] =
                           [@ EXCEPT !.pc = "done", !.status = status]]
    /\ UNCHANGED pipeVars
    /\ UNCHANGED tokVars
    /\ UNCHANGED <<accounts, changedAt, rotated, lastBlock, books, cache,
                   subscriptions>>

\* Some answer arrives for a request or for a refresh that is under way.
Answered ==
    \E c \in 1..Len(calls), status \in Answers :
        Answer(c, status) \/ RefreshAnswer(c, status)

NextClient ==
    \/ StoreSession
    \/ Logout
    \/ ApiRequest
    \/ \E c \in 1..Len(calls), status \in Answers : Answer(c, status)
    \/ \E c \in 1..Len(calls), status \in Answers : RefreshAnswer(c, status)

\* Every request and every refresh that is under way is answered in the
\* end.
SpecClient == InitTok /\ [][NextClient]_vars /\ WF_vars(Answered)

(***************************************************************************)
(* Password rules: validatePasswordStrength on its own and in the          *)
(* operations that set a password.                                         *)
(***************************************************************************)
\* Twelve or more characters of three classes, no special character.
NoSpecialPassword ==
    Password("Sunflower2024x", 14, TRUE, TRUE, TRUE, FALSE, FALSE, FALSE)

\* Contains 'password'; all four classes, fourteen characters.
CommonPassword ==
    Password("Password!2020x", 14, TRUE, TRUE, TRUE, TRUE, TRUE, FALSE)

\* The passwords by what the checks of validatePasswordStrength see of
\* them; a common or sequential pattern consists of letters or digits.
PasswordShapes ==
    {q \in {Password("", len, lo, up, di, sp, co, se) :
                len \in {6, 8, 12}, lo \in BOOLEAN, up \in BOOLEAN,
                di \in BOOLEAN, sp \in BOOLEAN, co \in BOOLEAN,
                se \in BOOLEAN} :
        /\ q.lower \/ q.upper \/ q.digit \/ q.special
        /\ (q.common \/ q.sequential) => (q.lower \/ q.upper \/ q.digit)}

NewPasswords ==
    {OtherStrongPassword, WeakPassword, NoSpecialPassword, CommonPassword}

ValidatePasswordStrength(password) ==
    /\ lastOp = NoOp
    /\ lastOp' = [NoOp EXCEPT !.op = "validatePasswordStrength",
                              !.password = password,
                              !.ok = isStrong(password)]
    /\ UNCHANGED <<users, tokClock, issued>>
    /\ UNCHANGED pipeVars
    /\ UNCHANGED svcVars

NextPwd ==
    \/ \E q \in PasswordShapes : ValidatePasswordStrength(q)
    \/ \E u \in UserIds, new \in NewPasswords, do \in BOOLEAN :
          ChangePassword(u, InitialPassword, new, do)
    \/ \E u \in UserIds, id \in ResetTokens, do \in BOOLEAN :
          RequestPasswordReset(EmailOf(u), id, do)
    \/ \E id \in ResetTokens, new \in NewPasswords, do \in BOOLEAN :
          ResetPassword(id, new, do)
    \/ Return

SpecPwd == InitTok /\ [][NextPwd]_vars

(***************************************************************************)
(* The login route under the authentication limiter as configured: one     *)
(* caller keeps sending wrong passwords, at most one attempt per tick.     *)
(***************************************************************************)
AuthWindowMs == 900000
AuthMax == 5

\* authRateLimiter = advancedRateLimiter({windowMs: 15 min, max: 5,
\* skipSuccessfulRequests: true}).
AuthConfig ==
    [windowMs |-> AuthWindowMs, max |-> AuthMax,
     skipSuccessfulRequests |-> TRUE, skipFailedRequests |-> FALSE]

\* The documented auto-block policy: violations and lookback period.
AutoBlockThreshold == 3
LookbackMs == 3600000

\* A login attempt arrives at a time at which the caller has sent none.
Attempt(ip) ==
    /\ \A j \in 1..Len(hist[<<"ip", ip>>]) : hist[<<"ip", ip>>][j].ts # now
    /\ LoginRoute(ip, MaxAttempts, TRUE, TRUE)

\* The caller waits after the answer to its latest attempt.
Wait ==
    /\ \A j \in 1..Len(reqs) : reqs[j].stage = "done"
    /\ TickBy(AbuseTickMs, MaxAbuseTicks * AbuseTickMs)

NextAbuse ==
    \/ \E ip \in RouteIPs : Attempt(ip)
    \/ \E i \in 1..Len(reqs) :
          LoginHandler(i, EmailOf("u1"), OtherStrongPassword, TRUE, TRUE, TRUE)
    \/ Wait

InitAbuse == Start(AuthConfig)

SpecAbuse == InitAbuse /\ [][NextAbuse]_vars

(***************************************************************************)
(* The block list on its own: addresses are blocked, blocked again,        *)
(* unblocked and looked up while time passes.                              *)
(***************************************************************************)
\* A caller asks isIPBlocked(ip).
IsIPBlocked(ip, redisOk) ==
    /\ last' = [NoStep EXCEPT !.step = "isIPBlocked", !.ip = ip,
                              !.redisOk = redisOk,
                              !.entryLive = BlockEntryLive(blocked, ip),
                              !.answer = isIPBlocked(blocked, ip, redisOk)]
    /\ UNCHANGED <<now, config, zset, zexp, blocked, nblock, auditLog, reqs,
                   hist>>
    /\ UNCHANGED tokVars
    /\ UNCHANGED svcVars

Reblock(ip, durationSeconds, redisOk, dbOk) ==
    /\ nblock < MaxReblock
    /\ BlockIPCall(ip, durationSeconds, redisOk, dbOk)

BlockDurations == {BlockSecondsCfg, BlockSecondsCfg + 1}

NextBlock ==
    \/ \E ip \in BlockableIPs, d \in BlockDurations, ro \in BOOLEAN :
          Reblock(ip, d, ro, TRUE)
    \/ \E ip \in BlockableIPs : UnblockIP(ip)
    \/ \E ip \in BlockableIPs, ro \in BOOLEAN : IsIPBlocked(ip, ro)
    \/ Tick

SpecBlock == InitPipe /\ [][NextBlock]_vars

(***************************************************************************)
(* Properties.                                                             *)
(***************************************************************************)
\* The most recent step was an evaluation of the limiter.
LimiterStep == last.step = "rateLimit"

\* The rate-limit key of the request of the most recent step.
LastKey == <<"ip", last.ip>>

\* No entry is ever retracted under the current configuration.
NoRetraction ==
    ~config.skipSuccessfulRequests /\ ~config.skipFailedRequests

\* The evaluations of the trailing window on key k have distinct timestamps.
DistinctTimestamps(k) ==
    \A i, j \in 1..Len(hist[k]) : i # j => hist[k][i].ts # hist[k][j].ts

\* C1: with the default handler and a reachable store, a request whose
\* count exceeds max is answered 429 and is never handed on to the next
\* middleware or the business handler.
C1_OverLimitRejected ==
    (LimiterStep /\ last.redisOk /\ last.count > config.max) =>
        /\ last.status = 429
        /\ reqs[last.id].stage = "done"

\* C2: for requests on one key at distinct timestamps and without
\* retraction, the request is allowed exactly when the number of entries of
\* the trailing window, itself included, is at most max.
C2_Threshold ==
    (LimiterStep /\ last.redisOk /\ NoRetraction
        /\ DistinctTimestamps(LastKey)) =>
        /\ (last.branch = "allowed") <=> (last.inWindow <= config.max)
        /\ (last.branch = "over") <=> (last.inWindow > config.max)
        /\ last.count = last.inWindow

\* C2 witness: the (max+1)th request of a window, all at distinct
\* timestamps, took the over-limit branch.
C2_Witness ==
    /\ LimiterStep /\ last.redisOk /\ NoRetraction
    /\ DistinctTimestamps(LastKey)
    /\ last.inWindow = config.max + 1
    /\ last.branch = "over"

\* C3: without retraction, at most max of the requests on one key inside
\* one window are allowed, also when several of them obtain the same
\* millisecond timestamp.
C3_AtMostMaxAllowed ==
    NoRetraction =>
        \A k \in Keys :
            Len(SelectSeq(hist[k], LAMBDA e : e.branch = "allowed"))
                <= config.max

\* C9: when the store call of the limiter fails, the request is handed to
\* the next handler exactly once and without an error, the fault is logged,
\* and no response rejects the request.
C9_FailOpen ==
    (LimiterStep /\ ~last.redisOk) =>
        /\ last.branch = "fault"
        /\ last.nextCalls = 1
        /\ last.nextErr = "none"
        /\ last.logged
        /\ last.status = 0
        /\ reqs[last.id].stage = "handler"

\* C9 witness: a limiter evaluation whose store call failed.
C9_Witness ==
    /\ LimiterStep /\ ~last.redisOk
    /\ reqs[last.id].stage = "handler"

\* The most recent step was checkIPBlock for a request whose source address
\* had a present, unexpired block entry.
BlockedArrival == last.step = "checkIPBlock" /\ last.entryLive

\* The request of the most recent step was answered 403 by checkIPBlock and
\* is at no later stage of the pipeline.
RejectedForbidden ==
    /\ last.status = 403
    /\ last.nextErr = "AppError"
    /\ reqs[last.id].stage = "done"

\* C4 as stated: every request from an address with a live block entry is
\* rejected with 403 before the token validator, the limiter or the handler.
C4_BlockedAlwaysRejected == BlockedArrival => RejectedForbidden

\* C4 amended: the rejection holds whenever the lookup of the block entry
\* succeeds; when the lookup fails the request is handed on (fail open).
C4_BlockedRejectedWhenStoreAnswers ==
    /\ (BlockedArrival /\ last.redisOk) => RejectedForbidden
    /\ (BlockedArrival /\ ~last.redisOk) =>
          /\ last.status = 0
          /\ reqs[last.id].stage \in {"auth", "limit"}

\* C4 witness: a request from a blocked address was rejected with 403.
C4_Witness == BlockedArrival /\ last.redisOk /\ RejectedForbidden

\* The most recent step decided RateLimitExceeded.
RateLimitDecision == last.step = "rateLimit" /\ last.branch = "over"

\* The most recent step decided Blocked.
BlockedDecision == last.step = "checkIPBlock" /\ last.status = 403

\* The action of the audit event that belongs to the most recent decision.
DecisionAction ==
    IF RateLimitDecision THEN "RATE_LIMIT_EXCEEDED" ELSE "BLOCKED_IP"

\* The newest audit event is the one of the most recent decision.
NewestEventMatches ==
    /\ Len(auditLog) > 0
    /\ auditLog[Len(auditLog)].action = DecisionAction
    /\ auditLog[Len(auditLog)].resource = "security"
    /\ auditLog[Len(auditLog)].ipAddress = last.ip

\* C10 as stated: every RateLimitExceeded and every Blocked decision adds
\* exactly one audit event with the request's address and matching action.
C10_ExactlyOneEvent ==
    (RateLimitDecision \/ BlockedDecision) =>
        /\ last.audits = 1
        /\ NewestEventMatches

\* C10 amended: the decision adds exactly one matching event when the write
\* to the audit store succeeds and no event when it fails; never two.
C10_OneEventWhenWriteSucceeds ==
    (RateLimitDecision \/ BlockedDecision) =>
        /\ last.dbOk => (last.audits = 1 /\ NewestEventMatches)
        /\ ~last.dbOk => last.audits = 0

\* C10 witness: a RateLimitExceeded decision whose event was written.
C10_Witness ==
    /\ RateLimitDecision /\ last.dbOk
    /\ last.audits = 1 /\ NewestEventMatches

(***************************************************************************)
(* Token-service properties.                                               *)
(***************************************************************************)
AccessCheck == lastOp.op \in {"authenticate", "optionalAuth"}

\* The presented token was not accepted as an access credential.
NotAcceptedAsAccess ==
    /\ lastOp.user = NoUser
    /\ lastOp.op = "authenticate" => ~lastOp.ok

\* The presented token is a JWT signed with secret and not expired.
SignedAndFresh(secret) ==
    /\ lastOp.token.kind = "jwt"
    /\ lastOp.token.key = secret
    /\ lastOp.at < lastOp.token.exp

\* C5: the access token of an issued pair is never accepted by
\* refreshToken, and its refresh token is never accepted by authenticate or
\* optionalAuth.
C5_KindSeparation ==
    /\ (lastOp.op = "refreshToken" /\ lastOp.presented = "access") =>
          (~lastOp.ok /\ lastOp.pair = NoPair)
    /\ (AccessCheck /\ lastOp.presented = "refresh") => NotAcceptedAsAccess

\* C5 witness: authenticate refused the unexpired refresh token of the
\* issued pair, whose user exists, while the database answered.
C5_Witness ==
    /\ lastOp.op = "authenticate" /\ lastOp.presented = "refresh"
    /\ lastOp.at < lastOp.token.exp
    /\ lastOp.token.userId \in users
    /\ lastOp.dbOk
    /\ ~lastOp.ok

\* C6: authenticate and optionalAuth reject a correctly signed, unexpired
\* token whose issuer or audience is not the service's own.
C6_IssuerAudienceChecked ==
    (AccessCheck /\ SignedAndFresh(JWT_SECRET)
        /\ (lastOp.token.iss # Issuer \/ lastOp.token.aud # Audience)) =>
        NotAcceptedAsAccess

\* C7: authenticate reports an expired access token as 'Token expired',
\* not as 'Invalid token'.
C7_ExpiredReported ==
    (lastOp.op = "authenticate" /\ lastOp.token.kind = "jwt"
        /\ lastOp.token.key = JWT_SECRET
        /\ lastOp.at >= lastOp.token.exp) =>
        /\ lastOp.err.message = "Token expired"
        /\ lastOp.err.statusCode = 401

\* The presented token is none that refreshToken may accept: not a JWT,
\* wrongly signed, expired, of the wrong kind, or for a missing user.
BadRefreshCredential ==
    \/ lastOp.token.kind # "jwt"
    \/ lastOp.token.key # JWT_REFRESH_SECRET
    \/ lastOp.at >= lastOp.token.exp
    \/ lastOp.token.type # "refresh"
    \/ lastOp.token.userId \notin users

\* C8: refreshToken fails with a 401 error and returns no pair for every
\* such credential.
C8_RotateFails ==
    (lastOp.op = "refreshToken" /\ BadRefreshCredential) =>
        /\ ~lastOp.ok
        /\ lastOp.err.cls = "AppError"
        /\ lastOp.err.statusCode = 401
        /\ lastOp.pair = NoPair

\* C8 witness: a token that is correctly signed with the refresh secret,
\* unexpired and for an existing user, but not of type refresh, was refused.
C8_Witness ==
    /\ lastOp.op = "refreshToken"
    /\ SignedAndFresh(JWT_REFRESH_SECRET)
    /\ lastOp.token.iss = Issuer /\ lastOp.token.aud = Audience
    /\ lastOp.token.type # "refresh"
    /\ lastOp.token.userId \in users
    /\ lastOp.dbOk
    /\ ~lastOp.ok /\ lastOp.err.statusCode = 401

(***************************************************************************)
(* Audit-sink properties.                                                  *)
(***************************************************************************)
\* The most recent step was a login whose audit event could not be written.
LoginAuditFailed ==
    /\ last.step = "handler"
    /\ lastOp.op = "login"
    /\ ~lastOp.auditOk

\* The result the same login call has when the audit store works.
LoginWithAudit ==
    login(lastOp.email, lastOp.password, users, accounts, lastOp.dbOk, TRUE,
          lastOp.at)

\* C11: AuditService.log and its wrappers never raise: a login whose audit
\* event cannot be written ends exactly as it does with a working audit
\* store, and an over-limit decision whose event cannot be written hands
\* the request on in the same way.
C11_AuditNeverRaises ==
    /\ LoginAuditFailed =>
          /\ lastOp.ok = LoginWithAudit.ok
          /\ lastOp.err = LoginWithAudit.err
          /\ lastOp.pair = LoginWithAudit.pair
          /\ last.status = Response(LoginWithAudit.ok, LoginWithAudit.err).status
    /\ (LimiterStep /\ last.branch = "over" /\ ~last.dbOk) =>
          /\ last.nextCalls = 1
          /\ last.nextErr = "none"
          /\ last.audits = 0

\* C11 witness: a login with the right password succeeded although its
\* LOGIN event could not be written.
C11_Witness ==
    /\ LoginAuditFailed
    /\ lastOp.ok
    /\ last.status = 200
    /\ lastOp.pair # NoPair

\* The events of log that cleanOldLogs(daysToKeep) at time at must keep:
\* those that are not older than at minus daysToKeep days.
NotOlderThan(log, daysToKeep, at) ==
    SelectSeq(log, LAMBDA e : e.createdAt >= at - daysToKeep * DayMs)

\* One event was appended to the table and nothing else changed in it.
OneAppended ==
    /\ Len(auditLog') = Len(auditLog) + 1
    /\ SubSeq(auditLog', 1, Len(auditLog)) = auditLog
    /\ auditLog'[Len(auditLog')].createdAt = now

\* The step is a cleanOldLogs call whose delete reached the database.
CleanStep == last'.step = "cleanOldLogs" /\ last'.dbOk

\* C12: the audit log is append-only: every step leaves the recorded
\* events as they are or appends one, except cleanOldLogs(daysToKeep), which
\* removes exactly the events older than now minus daysToKeep days.
C12_AppendOnly ==
    [][/\ \/ auditLog' = auditLog
          \/ OneAppended
          \/ CleanStep
       /\ CleanStep =>
             /\ auditLog' = NotOlderThan(auditLog, last'.days, now)
             /\ last'.count = Len(auditLog) - Len(auditLog')]_vars

\* C12 witness: cleanOldLogs deleted some events and kept others, one of
\* them created exactly daysToKeep days ago.
C12_Witness ==
    /\ last.step = "cleanOldLogs" /\ last.dbOk
    /\ last.count > 0
    /\ \E i \in 1..Len(auditLog) :
          auditLog[i].createdAt = now - last.days * DayMs

\* The step is an isIPBlocked lookup of an address whose latest blockIP call
\* reached the store and was not followed by unblockIP.
LookupAfterBlock ==
    /\ last.step = "isIPBlocked"
    /\ lastBlock[last.ip].set

\* Fewer than the duration of the latest block call has elapsed since it.
WithinBlock(ip) == now < lastBlock[ip].at + lastBlock[ip].dur * 1000

\* C13 as stated: after a successful blockIP(ip, d), isIPBlocked(ip) is
\* true at every time before d seconds have elapsed since the latest block
\* call, and false once they have elapsed.
C13_BlockedForDuration ==
    LookupAfterBlock => (last.answer <=> WithinBlock(last.ip))

\* C13 amended: the same when the lookup reaches the store; a lookup whose
\* store call fails answers false at any time.
C13_BlockedForDurationWhenStoreAnswers ==
    LookupAfterBlock =>
        last.answer = (last.redisOk /\ WithinBlock(last.ip))

\* C13 witness: an address blocked twice is looked up while the second
\* block still runs and the first has already run out.
C13_Witness ==
    /\ LookupAfterBlock /\ last.redisOk /\ last.answer
    /\ nblock >= 2
    /\ lastBlock[last.ip].at > 0
    /\ now >= BlockSecondsCfg * 1000

\* C13 witness of the other half: the lookup is made once the duration has
\* elapsed and answers false.
C13_WitnessElapsed ==
    /\ LookupAfterBlock /\ last.redisOk /\ ~last.answer
    /\ ~WithinBlock(last.ip)

\* The rate-limit violations of address ip within the lookback period: the
\* RATE_LIMIT_EXCEEDED events the limiter recorded for it.
Violations(ip) ==
    Len(SelectSeq(auditLog, LAMBDA e :
            /\ e.action = "RATE_LIMIT_EXCEEDED"
            /\ e.ipAddress = ip
            /\ e.createdAt > now - LookbackMs))

\* C14 as stated: once an address has more rate-limit violations within
\* the lookback period than the auto-block threshold, block has been called
\* for it: its block entry is present and isIPBlocked answers true.
C14_AutoBlock ==
    \A ip \in RouteIPs :
        Violations(ip) > AutoBlockThreshold =>
            /\ BlockEntryLive(blocked, ip)
            /\ isIPBlocked(blocked, ip, TRUE)

\* The login attempts the caller at ip has sent within the trailing window.
AttemptsInWindow(ip) == Len(hist[<<"ip", ip>>])

\* The limiter events recorded for address ip.
BreachEvents(ip) ==
    Len(SelectSeq(auditLog, LAMBDA e :
            e.action = "RATE_LIMIT_EXCEEDED" /\ e.ipAddress = ip))

\* C16 as stated: of six wrong-password logins within 15 minutes, attempts
\* 1 to 5 are answered 401 'Invalid credentials'; attempt 6 is answered by
\* the limiter with 429 and a reset time one window ahead, never reaches the
\* login handler, and leaves exactly one limiter event in the audit log.
C16_SixthAttemptLimited ==
    \A ip \in RouteIPs :
        /\ (last.step = "handler" /\ AttemptsInWindow(ip) <= AuthMax) =>
              /\ last.status = 401
              /\ lastOp.err = AppError("Invalid credentials", 401)
              /\ BreachEvents(ip) = 0
        /\ (last.step = "rateLimit" /\ AttemptsInWindow(ip) = AuthMax + 1) =>
              /\ last.branch = "over"
              /\ last.resetAt = now + AuthWindowMs
              /\ BreachEvents(ip) = 1
              /\ last.status = 429
              /\ reqs[last.id].stage = "done"

\* Request j was allowed by the limiter inside the trailing window and has
\* not been answered yet.
AllowedInFlight(j) ==
    /\ reqs[j].stage = "handler"
    /\ reqs[j].endHook
    /\ reqs[j].ts > now - config.windowMs

\* C15 as stated, for the limiter with skipSuccessfulRequests: the end of a
\* request with status < 400 removes that request's entry and no other
\* request's, so a request that was allowed inside the trailing window and
\* has not ended successfully still has its entry in the window.
C15_OnlyOwnEntryRemoved ==
    config.skipSuccessfulRequests =>
        \A j \in 1..Len(reqs) :
            AllowedInFlight(j) =>
                reqs[j].ts \in
                    zset[defaultKeyGenerator(reqs[j].user, reqs[j].ip)]

\* The request of the limiter step is the only one on its key in the
\* trailing window: the client sent nothing since one window before now.
BackedOff ==
    /\ LimiterStep
    /\ last.inWindow = IF last.redisOk THEN 1 ELSE 0

\* C17: a client that makes no request on its key from a limiter response
\* at time t until the reset time t + windowMs has its next request, at or
\* after the reset time, admitted: the limiter counts it as the first of
\* its window, records no breach and hands it on.
C17_BackOffRecovery ==
    BackedOff =>
        /\ last.branch \in {"allowed", "fault"}
        /\ last.redisOk => (last.branch = "allowed" /\ last.count = 1)
        /\ last.nextCalls = 1 /\ last.nextErr = "none"
        /\ last.audits = 0
        /\ reqs[last.id].stage = AfterLimit

\* C17 witness: a request arriving exactly at the reset time of an earlier
\* over-limit decision on the same address is allowed.
C17_Witness ==
    /\ BackedOff /\ last.redisOk /\ last.branch = "allowed"
    /\ \E i \in 1..Len(auditLog) :
          /\ auditLog[i].action = "RATE_LIMIT_EXCEEDED"
          /\ auditLog[i].ipAddress = last.ip
          /\ auditLog[i].createdAt + config.windowMs = now

\* The step is the answer to a login call that reached the database.
LoginAnswered ==
    /\ last.step = "handler"
    /\ lastOp.op = "login"
    /\ lastOp.dbOk

\* The account the e-mail of the login call belongs to, if any.
LoginAccount == FindByEmail(users, accounts, ToLowerCase(lastOp.email))

\* No account has the e-mail of the login call.
UnknownEmail == LoginAccount = NoUser

\* The e-mail belongs to an account and the password is not that account's.
WrongPassword ==
    /\ LoginAccount # NoUser
    /\ ~bcryptCompare(lastOp.password, accounts[LoginAccount].password)

InvalidCredentials == [status |-> 401, message |-> "Invalid credentials"]

\* C18: login answers an unknown e-mail and a wrong password for a known
\* e-mail with the same response, 401 'Invalid credentials', and issues no
\* tokens in either case.
C18_NoEnumeration ==
    (LoginAnswered /\ (UnknownEmail \/ WrongPassword)) =>
        /\ Response(lastOp.ok, lastOp.err) = InvalidCredentials
        /\ last.status = InvalidCredentials.status
        /\ lastOp.pair = NoPair

\* C18 witness: a login with a well-formed e-mail that no account has was
\* answered.
C18_Witness ==
    /\ LoginAnswered /\ UnknownEmail
    /\ isValidEmail(lastOp.email)
    /\ ~lastOp.ok

\* C18 witness of the other case: a wrong password for a known e-mail.
C18_WitnessWrongPassword ==
    /\ LoginAnswered /\ WrongPassword
    /\ ~lastOp.ok

\* The call is refreshToken with a refresh token this service signed for
\* an existing user, presented before its expiry, the database answering.
UnexpiredRefresh ==
    /\ lastOp.op = "refreshToken"
    /\ lastOp.dbOk
    /\ lastOp.token.kind = "jwt"
    /\ lastOp.token.type = "refresh"
    /\ lastOp.token.key = JWT_REFRESH_SECRET
    /\ lastOp.token.iss = Issuer /\ lastOp.token.aud = Audience
    /\ lastOp.token.userId \in users
    /\ lastOp.at < lastOp.token.exp

ScreenMatched ==
    /\ last.step = "screen"
    /\ last.status # 0

\* A security event for a detected payload from address ip exists.
PayloadEvent(ip) ==
    \E i \in 1..Len(auditLog) :
        /\ auditLog[i].resource = "security"
        /\ auditLog[i].ipAddress = ip
        /\ auditLog[i].action \notin {"RATE_LIMIT_EXCEEDED", "BLOCKED_IP"}

\* C20 as stated: a request in which checkMaliciousPatterns finds a SQL
\* injection or XSS pattern is answered 400 without reaching the handler,
\* and a security audit event is recorded for it, whatever the state of the
\* rate limit.
C20_MaliciousRejectedAndAudited ==
    ScreenMatched =>
        /\ last.status = 400
        /\ reqs[last.id].stage = "done"
        /\ PayloadEvent(last.ip)

\* The call is authenticate or optionalAuth.
AuthCall == lastOp.op \in {"authenticate", "optionalAuth"}

\* jwt.verify with JWT_SECRET rejects the token of the call: it is missing,
\* malformed, signed with another key or expired.
TokenRejected ==
    \/ lastOp.token.kind # "jwt"
    \/ lastOp.token.key # JWT_SECRET
    \/ lastOp.at >= lastOp.token.exp

\* The token names a subject that does not exist.
UnknownSubject == lastOp.token.userId \notin users

\* The token of the call fails validation; the user lookup, where it is
\* reached, is answered by the database.
ValidationFails ==
    \/ TokenRejected
    \/ lastOp.dbOk /\ UnknownSubject

\* C21: on a token validation failure authenticate hands on an error that
\* is answered 401, optionalAuth hands the request on without error and
\* without a principal, and neither attaches a principal unless the token
\* verified and its subject exists.
C21_RouteAuthPolicy ==
    /\ (lastOp.op = "authenticate" /\ ValidationFails) =>
          /\ ~lastOp.ok
          /\ errorHandler(lastOp.err).status = 401
          /\ lastOp.user = NoUser
    /\ (lastOp.op = "optionalAuth" /\ ValidationFails) =>
          /\ lastOp.ok
          /\ lastOp.err = NoErr
          /\ lastOp.user = NoUser
    /\ (AuthCall /\ lastOp.user # NoUser) =>
          /\ ~TokenRejected /\ ~UnknownSubject
          /\ lastOp.user = lastOp.token.userId
          /\ lastOp.ok

\* C21 witness: authenticate refused a correctly signed token for a subject
\* that does not exist.
C21_Witness ==
    /\ lastOp.op = "authenticate"
    /\ ~TokenRejected /\ UnknownSubject /\ lastOp.dbOk
    /\ ~lastOp.ok

\* C21 witness for the optional policy: an expired token, handed on
\* anonymously.
C21_WitnessOptional ==
    /\ lastOp.op = "optionalAuth"
    /\ lastOp.token.kind = "jwt" /\ lastOp.token.key = JWT_SECRET
    /\ lastOp.at >= lastOp.token.exp
    /\ lastOp.ok /\ lastOp.user = NoUser

\* errorHandler has answered an error.
ErrorAnswered == lastOp.op = "errorHandler"

\* The parts of the error that are internal detail: its trace, and the
\* message of an error that is not an AppError.
GenericForInternal ==
    ~InstanceOf(lastOp.err, "AppError") =>
        /\ lastOp.body.message = "Internal Server Error"
        /\ lastOp.status = 500

\* C22 as stated: for every error and every NODE_ENV the body carries no
\* stack trace, and an error that is not an AppError is answered 500 with
\* the generic message.
C22_NoInternalDetail ==
    ErrorAnswered =>
        /\ lastOp.body.stack = NoStack
        /\ GenericForInternal

\* C22 amended: the body carries the stack trace exactly when NODE_ENV is
\* 'development'; under every NODE_ENV an error that is not an AppError is
\* answered 500 with the generic message.
C22_NoInternalDetailOutsideDevelopment ==
    ErrorAnswered =>
        /\ (lastOp.body.stack # NoStack) <=> (lastOp.nodeEnv = "development")
        /\ GenericForInternal

\* C22 witness: a database error answered outside production and
\* development: generic message, no trace.
C22_Witness ==
    /\ ErrorAnswered
    /\ lastOp.err = PlainError("connect ECONNREFUSED 10.0.0.5:5432")
    /\ lastOp.nodeEnv = "test"
    /\ lastOp.body.message = "Internal Server Error"
    /\ lastOp.body.stack = NoStack

\* The documented password requirements, all of them.
MeetsAllCriteria(q) ==
    /\ q.length >= 8
    /\ q.lower /\ q.upper /\ q.digit /\ q.special
    /\ ~q.common /\ ~q.sequential

\* C23 as stated: validatePasswordStrength reports isStrong only for a
\* password that meets all documented criteria, and resetPassword and
\* changePassword set no password that misses one of them.
C23_StrongMeetsAllCriteria ==
    /\ (lastOp.op = "validatePasswordStrength" /\ lastOp.ok) =>
          MeetsAllCriteria(lastOp.password)
    /\ (lastOp.op \in {"changePassword", "resetPassword"} /\ lastOp.ok) =>
          MeetsAllCriteria(lastOp.password)

\* The resetPassword calls that have returned successfully.
SucceededResets(token) ==
    {c \in 1..Len(calls) :
        /\ calls[c].op = "resetPassword"
        /\ calls[c].pc = "done" /\ calls[c].ok
        /\ calls[c].token = token}

\* C24 as stated: of the resetPassword calls that present the same reset
\* token, in any interleaving, at most one succeeds in changing the
\* password.
C24_ResetTokenSingleUse ==
    \A t \in ResetTokens : Cardinality(SucceededResets(t)) <= 1

\* The createBook calls of user u that returned a book.
CreatedBy(u) ==
    {c \in 1..Len(calls) :
        /\ calls[c].op = "createBook"
        /\ calls[c].pc = "done" /\ calls[c].ok
        /\ calls[c].caller = u}

\* C25 as stated: the number of books a FREE-tier user has successfully
\* created with createBook in the month never exceeds monthlyBookLimit,
\* also when createBook calls of that user run concurrently.
C25_FreeTierQuota ==
    \A u \in UserIds :
        subscriptions[u].tier = "FREE" =>
            Cardinality(CreatedBy(u)) <= subscriptions[u].monthlyBookLimit

\* The step is an evaluation of the limiter whose transaction ran.
Evaluation ==
    /\ Len(reqs') = Len(reqs) + 1
    /\ last'.step = "rateLimit"
    /\ last'.redisOk

\* The entries recorded before the step that are not older than the start
\* of the window of the step.
NotOlderThanWindow(k) == {t \in zset[k] : t >= now - config.windowMs}

\* C26 as stated: after the limiter has processed a request at time now,
\* the key's set holds exactly the entries recorded before that are not
\* older than now - windowMs, plus one new entry for the request; and the
\* count compared against max is the cardinality of that set.
C26_WindowPostState ==
    [][Evaluation =>
         LET k == <<"ip", last'.ip>>
         IN /\ NotOlderThanWindow(k) \subseteq zset'[k]
            /\ zset'[k] \ NotOlderThanWindow(k) \subseteq {now}
            /\ Cardinality(zset'[k]) = Cardinality(NotOlderThanWindow(k)) + 1
            /\ last'.count = Cardinality(zset'[k])]_vars

\* A getBook call that has returned a book.
Returned(c) ==
    calls[c].op = "getBook" /\ calls[c].pc = "done" /\ calls[c].ok

\* C27: a getBook caller who is anonymous or is not the author never
\* receives a book whose isPublic is false.
C27_PrivateBookOnlyToAuthor ==
    \A c \in 1..Len(calls) :
        (Returned(c) /\ ~calls[c].result.isPublic)
            => calls[c].caller = calls[c].result.authorId

\* C29: a getBook call that started after a deleteBook of the book had
\* completed does not return the book.
C29_NoBookAfterDelete ==
    \A c \in 1..Len(calls) :
        (calls[c].op = "getBook" /\ calls[c].afterDelete
           /\ calls[c].pc = "done") => ~calls[c].ok

\* Call c is a generateStoryContent call of a user who is not the author
\* of the book.
ByNonAuthor(c) ==
    /\ calls[c].op = "generateStoryContent"
    /\ books[calls[c].bookId].exists
    /\ books[calls[c].bookId].authorId # calls[c].caller

\* C28: a step of a generateStoryContent call of a user who is not the
\* book's author leaves the book table unchanged, status included, and
\* the call ends in failure, with 403 unless the database failed (500).
C28_NonAuthorLeavesBookUnchanged ==
    [][\A c \in 1..Len(calls) :
          (ByNonAuthor(c) /\ calls'[c] # calls[c])
              => /\ books' = books
                 /\ calls'[c].pc = "done"
                      => /\ ~calls'[c].ok
                         /\ errorHandler(calls'[c].err).status \in {403, 500}
      ]_vars

\* Every request of the client has been handed back to its caller.
AllSettled ==
    \A c \in 1..Len(calls) :
        calls[c].op = "request" => calls[c].pc = "done"

\* For every request at most one refresh and one replay have been made,
\* and a request is replayed only after its refresh.
OneRefreshOneReplay ==
    \A c \in 1..Len(calls) :
        calls[c].op = "request"
            => /\ calls[c].refreshes <= 1
               /\ calls[c].replays <= calls[c].refreshes

\* C30: a request triggers at most one token refresh and at most one
\* replay (a replay that fails with 401 is rejected without another
\* refresh), and every request ends with a response or an error.
C30_NoRefreshLoop == []OneRefreshOneReplay /\ <>[]AllSettled

\* A replayed request was answered 401 again and rejected to the caller
\* after its one refresh.
C30_Witness ==
    \E c \in 1..Len(calls) :
        /\ calls[c].op = "request" /\ calls[c].pc = "done"
        /\ ~calls[c].ok /\ calls[c].status = 401
        /\ calls[c].replays = 1 /\ calls[c].refreshes = 1

====
